---- MODULE Spec2Model ----
(***************************************************************************)
(* Cross Cart: the purchase-order builder and the agent orchestrator of    *)
(* src/actions/index.ts (createPurchaseOrder, runAgent and its capability  *)
(* gate canUseTool) and the wardrobe's purchase handler of                 *)
(* src/components/wardrobe.tsx (handleRunAgent).                           *)
(* Further down: the image pipeline of the same file (generateOutfitImage, *)
(* composeGarmentWithGemini, removeBackgroundWithGoogle).                  *)
(*                                                                         *)
(* Numbers.  A price is a JavaScript number: a finite value, NaN or an     *)
(* infinity.  Finite prices are whole currency units here.  sendAmount is  *)
(* kept in hundredths (cents), which is exactly what toFixed(2) yields.    *)
(***************************************************************************)
EXTENDS Integers, Sequences, FiniteSets, TLC

VARIABLES
    poInput,        \* createPurchaseOrder applied on its own: the item list
    poOutput,       \* ... and what it returned or threw
    equippedSlots,  \* wardrobe: SlotId -> product id or NoProduct
    isAgentRunning, \* wardrobe: the purchase handler's running flag
    portraitError,  \* wardrobe: the error banner the handler sets
    handlerResult,  \* wardrobe: the message handleRunAgent last returned
    agentPc,        \* runAgent: "idle", "called", "streaming", "returned", "thrown"
    caller,         \* runAgent: who awaits the run ("handler", "direct", "none")
    items,          \* runAgent: the argument
    purchaseOrder,  \* runAgent: the purchase order built (<<>> before it is)
    promptBuilt,    \* runAgent: buildPurchasePrompt has run
    sessionOpen,    \* runAgent: query() has been called
    stream,         \* runAgent: the messages consumed so far, in arrival order
    mcpStatus,      \* runAgent: the local mcpStatus
    finalResult,    \* runAgent: the local finalResult
    outcome,        \* runAgent: how the call settled
    logged,         \* runAgent: the catch block has logged the error
    toolCalls,      \* gate: number of tool requests made in this run
    lastRequest,    \* gate: the last request the runtime handed to canUseTool
    lastDecision,   \* gate: what canUseTool returned for it
    executed,       \* execution layer: the (name, input) pairs it has received
    operation,      \* image pipeline: which exported function was called
    geminiKey,      \* image pipeline: GEMINI_API_KEY was set (geminiClient exists)
    portrait,       \* generateOutfitImage: the portrait argument
    slots,          \* generateOutfitImage: the slots argument, SlotId -> asset
    slotKeys,       \* generateOutfitImage: the key order of the slots object
    outfitPc,       \* image pipeline: position of the call
    layerIndex,     \* generateOutfitImage: next index of LAYERING_ORDER to visit
    slotAssets,     \* generateOutfitImage: the local slotAssets
    fetches,        \* the slot-image fetches issued so far, in order
    workingPortrait,\* generateOutfitImage: the local workingPortrait
    passStart,      \* generateOutfitImage: the pass loop's i
    calls,          \* the generateContentStream calls issued so far, in order
    chunks,         \* the chunks consumed from the current call's stream
    outfitOutcome,  \* image pipeline: how the call settled
    inFlight,       \* image pipeline: the external calls started and not settled
    productDeck,    \* wardrobe: the products still on the deck, as ids
    savedProducts,  \* wardrobe: the saved products, as ids, in saving order
    slotOptionsMap, \* wardrobe: the memoised slot -> saved products index
    voiceResult,    \* wardrobe: what handleVoiceEquipProduct last returned
    uploadPc,       \* studio: "idle", or "posted" while the portrait POST runs
    endpointRequests, \* studio: the files posted to the portrait endpoint
    isPortraitUploading, \* studio: the upload flag
    portraitPreviewUrl,  \* studio: the stored portrait, a data URL or <<>>
    generatedOutfitUrl,  \* studio: the last generated outfit, or <<>>
    outfitError,    \* studio: the outfit error banner, <<>> when null
    isGeneratingOutfit,  \* studio: the generation flag
    generateResult, \* studio: what handleGenerateOutfit last returned
    renderCount,    \* studio: generations handleGenerateOutfit has started
    lastComposite,  \* studio: the image of the last successful generation
    routePc,        \* search route: "idle", or "searching" during searchProducts
    request,        \* search route: the body of the last request
    searchArgs,     \* search route: <<query, limit>> handed to searchProducts
    response,       \* search route: the last response
    renderedIsAgentRunning, \* wardrobe: isAgentRunning as of the last render
    renderedEquippedSlots,  \* wardrobe: equippedSlots as of the last render
    runsInFlight    \* wardrobe: the runAgent calls started and not settled

poVars == <<poInput, poOutput>>
wardrobeVars == <<equippedSlots, isAgentRunning, portraitError, handlerResult>>
runVars == <<agentPc, caller, items, purchaseOrder, promptBuilt, sessionOpen,
             stream, mcpStatus, finalResult, outcome, logged>>
gateVars == <<toolCalls, lastRequest, lastDecision, executed>>
outfitVars == <<operation, geminiKey, portrait, slots, slotKeys, outfitPc,
                layerIndex, slotAssets, fetches, workingPortrait, passStart,
                calls, chunks, outfitOutcome, inFlight>>
catalogVars == <<productDeck, savedProducts, slotOptionsMap, voiceResult>>
studioVars == <<uploadPc, endpointRequests, isPortraitUploading,
                portraitPreviewUrl, generatedOutfitUrl, outfitError,
                isGeneratingOutfit, generateResult, renderCount, lastComposite>>
routeVars == <<routePc, request, searchArgs, response>>
purchaseVars == <<renderedIsAgentRunning, renderedEquippedSlots, runsInFlight>>
uiVars == <<catalogVars, studioVars, routeVars, purchaseVars>>
vars == <<poVars, wardrobeVars, runVars, gateVars, outfitVars, uiVars>>

----------------------------------------------------------------------------
(* Bounds of the model *)

\* longest item list handed to createPurchaseOrder on its own
MaxItems == 4
\* messages the agent runtime delivers in one run
MaxMessages == 2
\* tool requests the agent makes in one run
MaxToolCalls == 2

----------------------------------------------------------------------------
(* JavaScript numbers *)

Null == "null"

Fin(n) == [k |-> "fin", v |-> n]
NaN == [k |-> "nan", v |-> 0]
PosInfinity == [k |-> "inf", v |-> 1]
NegInfinity == [k |-> "inf", v |-> -1]

\* Number.isFinite
NumberIsFinite(x) == x.k = "fin"

\* x <= 0 for a JavaScript number (false for NaN)
LeqZero(x) ==
    \/ x.k = "fin" /\ x.v <= 0
    \/ x.k = "inf" /\ x.v < 0

Pow2Mod1000[k \in Nat] ==
    IF k = 0 THEN 1 ELSE (2 * Pow2Mod1000[k - 1]) % 1000

\* The binary exponent shift s with 2^52 <= p * 2^s / 1000 < 2^53, p > 0:
\* the double nearest to p/1000 has the integer significand round(p * 2^s / 1000).
RECURSIVE ShiftBelow(_, _)
ShiftBelow(p, j) == IF p * (2 ^ j) >= 1000 THEN j ELSE ShiftBelow(p, j + 1)
RECURSIVE ShiftAbove(_, _)
ShiftAbove(p, j) == IF 1000 * (2 ^ (j + 1)) <= p THEN ShiftAbove(p, j + 1) ELSE j
SignificandShift(p) ==
    IF p >= 1000 THEN 52 - ShiftAbove(p, 0) ELSE 52 + ShiftBelow(p, 1)

\* The remainder of p * 2^s by 1000: 0 when p/1000 is a double, below 500 when
\* the double nearest to p/1000 lies under p/1000, above 500 when it lies over.
DivisionRemainder(p) ==
    ((p % 1000) * Pow2Mod1000[SignificandShift(p)]) % 1000

\* (p / 1000).toFixed(2) for a whole p > 0, in hundredths: the n for which
\* n/100 is closest to the double p/1000, the larger n when two are as close.
ToFixed2(p) ==
    LET q == p \div 10
        r == p % 10
        rem == DivisionRemainder(p)
    IN  IF r > 5 THEN q + 1
        ELSE IF r < 5 THEN q
        ELSE IF rem = 0 \/ rem > 500 THEN q + 1 ELSE q

----------------------------------------------------------------------------
(* Data *)

SlotIds == {"head", "chest", "waist", "legs", "feet",
            "ears", "neck", "bag", "hand", "ring"}

allSlotIds == <<"head", "chest", "waist", "legs", "feet",
                "ears", "neck", "bag", "hand", "ring">>

MERCHANT_ADDRESSES ==
    << "0xd4540357f53ac4beff49acfce8ea1610a158494e",
       "0xac4db5ac3caae375c0d29bf5c0297caa2c3b4cf7",
       "0x45a53e361a4c454c7b43e8e089016873a0950e55" >>

NoProduct == "none"

\* The products the catalog may return: id -> price.
CatalogPrice ==
    ("a" :> Fin(999)) @@ ("b" :> Fin(150)) @@ ("z" :> Fin(0))
ProductIds == DOMAIN CatalogPrice

\* A SelectedWardrobeItem: a product with the slot it is equipped in.
Item(id, price, slotId) == [id |-> id, price |-> price, slotId |-> slotId]

\* An argument of runAgent / createPurchaseOrder: a list, or something else.
ItemList(seq) == [isArray |-> TRUE, elems |-> seq]
NotAList == [isArray |-> FALSE, elems |-> <<>>]

----------------------------------------------------------------------------
(* Errors and results *)

NoError == [name |-> "none", id |-> ""]
EmptyItemsError == [name |-> "At least one equipped item is required to purchase.",
                    id |-> ""]
\* `Item ${item.id} must include a valid price to purchase through Locus.`
InvalidPriceError(id) == [name |-> "must include a valid price", id |-> id]
SessionError == [name |-> "session setup failed", id |-> ""]
StreamError == [name |-> "stream failed", id |-> ""]

Returned(v) == [kind |-> "returned", value |-> v, error |-> NoError]
Thrown(e) == [kind |-> "thrown", value |-> <<>>, error |-> e]
Pending == [kind |-> "pending", value |-> <<>>, error |-> NoError]

----------------------------------------------------------------------------
(* createPurchaseOrder *)

\* the guard of the throw: !Number.isFinite(p) || p <= 0
InvalidPriceAcceptZero(p) == ~NumberIsFinite(p) \/ (p.k = "fin" /\ p.v < 0)
InvalidPrice(p) == ~NumberIsFinite(p) \/ LeqZero(p)

SendAmount(p) == ToFixed2(p.v)

RecipientAlwaysFirst(index) == MERCHANT_ADDRESSES[1]
\* MERCHANT_ADDRESSES[index % MERCHANT_ADDRESSES.length], index counted from 0
RecipientAddress(index) ==
    MERCHANT_ADDRESSES[(index % Len(MERCHANT_ADDRESSES)) + 1]

PurchaseOrderItem(item, index) ==
    [id |-> item.id,
     slotId |-> item.slotId,
     price |-> item.price,
     recipientAddress |-> RecipientAddress(index),
     sendAmount |-> SendAmount(item.price)]

Min(S) == CHOOSE x \in S : \A y \in S : x <= y

\* items.map(...): the callback throws at the first item whose price is invalid
CreatePurchaseOrder(list) ==
    LET bad == {i \in 1..Len(list) : InvalidPrice(list[i].price)}
    IN  IF bad # {}
        THEN Thrown(InvalidPriceError(list[Min(bad)].id))
        ELSE Returned([i \in 1..Len(list) |->
                          PurchaseOrderItem(list[i], i - 1)])

----------------------------------------------------------------------------
(* The capability gate and the agent runtime's messages *)

\* tool names as the characters String.prototype.startsWith compares
ToolNameChars ==
    ("mcp__locus__send_to_address" :>
        <<"m", "c", "p", "_", "_", "l", "o", "c", "u", "s", "_", "_", "s", "e",
          "n", "d", "_", "t", "o", "_", "a", "d", "d", "r", "e", "s", "s">>) @@
    ("mcp__other__delete" :>
        <<"m", "c", "p", "_", "_", "o", "t", "h", "e", "r", "_", "_", "d", "e",
          "l", "e", "t", "e">>) @@
    ("mcp__read_resource" :>
        <<"m", "c", "p", "_", "_", "r", "e", "a", "d", "_", "r", "e", "s", "o",
          "u", "r", "c", "e">>) @@
    ("mcp__list_resources" :>
        <<"m", "c", "p", "_", "_", "l", "i", "s", "t", "_", "r", "e", "s", "o",
          "u", "r", "c", "e", "s">>) @@
    ("mcp__locus_send" :>
        <<"m", "c", "p", "_", "_", "l", "o", "c", "u", "s", "_", "s", "e", "n",
          "d">>) @@
    ("xmcp__locus__send" :>
        <<"x", "m", "c", "p", "_", "_", "l", "o", "c", "u", "s", "_", "_", "s",
          "e", "n", "d">>)

ToolNames == DOMAIN ToolNameChars

\* 'mcp__locus__'
LOCUS_PREFIX == <<"m", "c", "p", "_", "_", "l", "o", "c", "u", "s", "_", "_">>

\* String.prototype.startsWith
StartsWith(chars, prefix) ==
    /\ Len(chars) >= Len(prefix)
    /\ SubSeq(chars, 1, Len(prefix)) = prefix

\* the inputs an agent may attach to a tool request
ToolInputs ==
    { [address |-> MERCHANT_ADDRESSES[1], amount |-> 100],
      [address |-> "0xattacker", amount |-> 15] }

Allow(input) == [behavior |-> "allow", updatedInput |-> input]
Deny == [behavior |-> "deny", message |-> "Only Locus tools are allowed"]
\* a callback that does not return: its promise rejects
Rejects == [behavior |-> "throw"]

\* options.allowedTools: the patterns the session is configured to allow
allowedTools ==
    << LOCUS_PREFIX \o <<"*">>,
       ToolNameChars["mcp__read_resource"],
       ToolNameChars["mcp__list_resources"] >>

\* a name matches a pattern: up to a closing '*', or as a whole
MatchesPattern(chars, pattern) ==
    IF pattern # <<>> /\ pattern[Len(pattern)] = "*"
    THEN StartsWith(chars, SubSeq(pattern, 1, Len(pattern) - 1))
    ELSE chars = pattern

\* the tool is on the allow-list of the session
AllowListed(toolName) ==
    \E i \in 1..Len(allowedTools) :
       MatchesPattern(ToolNameChars[toolName], allowedTools[i])

\* mutants of the gate
CanUseToolListed(toolName, input) ==
    IF AllowListed(toolName) THEN Allow(input) ELSE Deny
CanUseToolAnyMcp(toolName, input) ==
    IF StartsWith(ToolNameChars[toolName], <<"m", "c", "p", "_", "_">>)
    THEN Allow(input) ELSE Deny
CanUseToolRewrites(toolName, input) ==
    IF StartsWith(ToolNameChars[toolName], LOCUS_PREFIX)
    THEN Allow([input EXCEPT !.amount = 0]) ELSE Deny
CanUseToolThrows(toolName, input) ==
    IF StartsWith(ToolNameChars[toolName], LOCUS_PREFIX)
    THEN Allow(input) ELSE Rejects

\* options.canUseTool
CanUseTool(toolName, input) ==
    IF StartsWith(ToolNameChars[toolName], LOCUS_PREFIX)
    THEN Allow(input)
    ELSE Deny

NoRequest == [name |-> "none", input |-> [address |-> "", amount |-> 0]]
NoDecision == [behavior |-> "none"]

\* mcp_servers entries of an initialization message
NoServer == [name |-> "null", status |-> "null"]
Server(name, status) == [name |-> name, status |-> status]

Message(type, subtype, servers, result) ==
    [type |-> type, subtype |-> subtype, mcp_servers |-> servers,
     result |-> result]

InitMessages ==
    { Message("system", "init", <<Server("locus", "connected")>>, Null),
      Message("system", "init", <<Server("locus", "failed")>>, Null),
      Message("system", "init", <<Server("other", "connected")>>, Null) }
SuccessMessages ==
    { Message("result", "success", <<>>, r) : r \in {"r1", "r2"} }
OtherMessages ==
    { Message("assistant", "", <<>>, "text"),
      Message("result", "error_during_execution", <<>>, "e1") }
Messages == InitMessages \cup SuccessMessages \cup OtherMessages

\* mcpServersInfo?.find((s) => s.name === 'locus') ?? null
FindLocus(servers) ==
    LET hits == {i \in 1..Len(servers) : servers[i].name = "locus"}
    IN  IF hits = {} THEN NoServer ELSE servers[Min(hits)]

IsInit(m) == m.type = "system" /\ m.subtype = "init"
IsSuccess(m) == m.type = "result" /\ m.subtype = "success"

----------------------------------------------------------------------------
(* Initial values *)

RunSettled(v) == [kind |-> "returned", value |-> v, error |-> NoError]
RunFailed(e) == [kind |-> "thrown", value |-> Null, error |-> e]
RunPending == [kind |-> "pending", value |-> Null, error |-> NoError]

\* handleRunAgent has not answered yet
NoMessage == [text |-> Null, count |-> 0]

PoIdle == poInput = ItemList(<<>>) /\ poOutput = Pending

WardrobeInit ==
    /\ equippedSlots = [s \in SlotIds |-> NoProduct]
    /\ isAgentRunning = FALSE
    /\ portraitError = Null
    /\ handlerResult = NoMessage

RunInit ==
    /\ agentPc = "idle"
    /\ caller = "none"
    /\ items = ItemList(<<>>)
    /\ purchaseOrder = <<>>
    /\ promptBuilt = FALSE
    /\ sessionOpen = FALSE
    /\ stream = <<>>
    /\ mcpStatus = NoServer
    /\ finalResult = Null
    /\ outcome = RunPending
    /\ logged = FALSE

GateInit ==
    /\ toolCalls = 0
    /\ lastRequest = NoRequest
    /\ lastDecision = NoDecision
    /\ executed = <<>>

\* the call is over and its caller has its outcome: nothing of it remains
Forget ==
    /\ agentPc' = "idle"
    /\ caller' = "none"
    /\ items' = ItemList(<<>>)
    /\ purchaseOrder' = <<>>
    /\ promptBuilt' = FALSE
    /\ sessionOpen' = FALSE
    /\ stream' = <<>>
    /\ mcpStatus' = NoServer
    /\ finalResult' = Null
    /\ outcome' = RunPending
    /\ logged' = FALSE
    /\ toolCalls' = 0
    /\ lastRequest' = NoRequest
    /\ lastDecision' = NoDecision
    /\ executed' = <<>>

\* a fresh invocation of runAgent(list) on behalf of who
Invoke(list, who) ==
    /\ agentPc' = "called"
    /\ caller' = who
    /\ items' = list
    /\ purchaseOrder' = <<>>
    /\ promptBuilt' = FALSE
    /\ sessionOpen' = FALSE
    /\ stream' = <<>>
    /\ mcpStatus' = NoServer
    /\ finalResult' = Null
    /\ outcome' = RunPending
    /\ logged' = FALSE
    /\ toolCalls' = 0
    /\ lastRequest' = NoRequest
    /\ lastDecision' = NoDecision
    /\ executed' = <<>>

----------------------------------------------------------------------------
(* runAgent *)

\* the guard of the first throw: !Array.isArray(items) || items.length === 0
NoItemsNeverFails(list) == FALSE
NoItems(list) == ~list.isArray \/ Len(list.elems) = 0

\* the catch block: log, then rethrow; a mutant that returns instead
CatchSwallows(e) == RunSettled(Null)
Catch(e) == RunFailed(e)

\* runAgent up to its first suspension: the guard, createPurchaseOrder,
\* buildPurchasePrompt, then (inside try) the options and the call of query().
\* setupFails: the session cannot be set up and query() raises.
RunAgentStart(setupFails) ==
    /\ agentPc = "called"
    /\ IF NoItems(items)
       THEN /\ outcome' = RunFailed(EmptyItemsError)
            /\ agentPc' = "thrown"
            /\ UNCHANGED <<purchaseOrder, promptBuilt, sessionOpen, logged>>
       ELSE LET built == CreatePurchaseOrder(items.elems)
            IN  IF built.kind = "thrown"
                THEN /\ outcome' = RunFailed(built.error)
                     /\ agentPc' = "thrown"
                     /\ UNCHANGED <<purchaseOrder, promptBuilt, sessionOpen,
                                    logged>>
                ELSE /\ purchaseOrder' = built.value
                     /\ promptBuilt' = TRUE
                     /\ IF setupFails
                        THEN /\ logged' = TRUE
                             /\ outcome' = Catch(SessionError)
                             /\ agentPc' = outcome'.kind
                             /\ UNCHANGED sessionOpen
                        ELSE /\ sessionOpen' = TRUE
                             /\ agentPc' = "streaming"
                             /\ UNCHANGED <<outcome, logged>>
    /\ UNCHANGED <<caller, items, stream, mcpStatus, finalResult>>
    /\ UNCHANGED <<poVars, outfitVars, uiVars, wardrobeVars, gateVars>>

\* which messages set finalResult; a mutant that keeps the first one only
CapturesFirstOnly(m, current) == IsSuccess(m) /\ current = Null
Captures(m, current) == IsSuccess(m)

\* what the loop does with the status found in an initialization message:
\* console.log when it is 'connected', console.warn otherwise; a mutant that
\* gives up on a server that is not connected
InitCheckAborts(found) ==
    IF found.status = "connected" THEN "log" ELSE "throw"
InitCheck(found) ==
    IF found.status = "connected" THEN "log" ELSE "warn"

\* one turn of the for-await loop over query(...)
ConsumeMessage(m) ==
    /\ agentPc = "streaming"
    /\ Len(stream) < MaxMessages
    /\ stream' = Append(stream, m)
    /\ IF IsInit(m)
       THEN /\ mcpStatus' = FindLocus(m.mcp_servers)
            /\ UNCHANGED finalResult
       ELSE IF Captures(m, finalResult)
       THEN /\ finalResult' = m.result
            /\ UNCHANGED mcpStatus
       ELSE UNCHANGED <<mcpStatus, finalResult>>
    /\ IF IsInit(m) /\ InitCheck(FindLocus(m.mcp_servers)) = "throw"
       THEN /\ logged' = TRUE
            /\ outcome' = Catch(StreamError)
            /\ agentPc' = outcome'.kind
       ELSE UNCHANGED <<agentPc, outcome, logged>>
    /\ UNCHANGED <<caller, items, purchaseOrder, promptBuilt, sessionOpen>>
    /\ UNCHANGED <<poVars, outfitVars, uiVars, wardrobeVars, gateVars>>

\* the stream ends: return finalResult
StreamEnd ==
    /\ agentPc = "streaming"
    /\ outcome' = RunSettled(finalResult)
    /\ agentPc' = "returned"
    /\ UNCHANGED <<caller, items, purchaseOrder, promptBuilt, sessionOpen,
                   stream, mcpStatus, finalResult, logged>>
    /\ UNCHANGED <<poVars, outfitVars, uiVars, wardrobeVars, gateVars>>

\* the stream raises while it is consumed: catch, log, rethrow
StreamThrows ==
    /\ agentPc = "streaming"
    /\ logged' = TRUE
    /\ outcome' = Catch(StreamError)
    /\ agentPc' = outcome'.kind
    /\ UNCHANGED <<caller, items, purchaseOrder, promptBuilt, sessionOpen,
                   stream, mcpStatus, finalResult>>
    /\ UNCHANGED <<poVars, outfitVars, uiVars, wardrobeVars, gateVars>>

\* the agent asks for a tool: the runtime consults canUseTool, and hands the
\* tool to the execution layer, with updatedInput, only when it answers allow;
\* a gate that raised would fail the stream.
ToolRequest(toolName, input) ==
    /\ agentPc = "streaming"
    /\ toolCalls < MaxToolCalls
    /\ toolCalls' = toolCalls + 1
    /\ lastRequest' = [name |-> toolName, input |-> input]
    /\ lastDecision' = CanUseTool(toolName, input)
    /\ executed' =
          IF lastDecision'.behavior = "allow"
          THEN Append(executed, [name |-> toolName,
                                 input |-> lastDecision'.updatedInput])
          ELSE executed
    /\ IF lastDecision'.behavior \in {"allow", "deny"}
       THEN UNCHANGED <<agentPc, outcome, logged>>
       ELSE /\ logged' = TRUE
            /\ outcome' = Catch(StreamError)
            /\ agentPc' = outcome'.kind
    /\ UNCHANGED <<caller, items, purchaseOrder, promptBuilt, sessionOpen,
                   stream, mcpStatus, finalResult>>
    /\ UNCHANGED <<poVars, outfitVars, uiVars, wardrobeVars>>

----------------------------------------------------------------------------
(* The wardrobe: equipping, and the purchase handler handleRunAgent *)

HandlerMessage(text, n) == [text |-> text, count |-> n]
PurchasingText == "Purchasing items."
BusyText == "Purchase already in progress."
EquipFirstText == "Equip at least one slot before purchasing."

\* the slots the user equips in this model, of the ten
AssignableSlots == {"chest", "legs"}

handleAssignSlot(slotId, product) ==
    /\ equippedSlots' = [equippedSlots EXCEPT ![slotId] = product]
    /\ UNCHANGED <<isAgentRunning, portraitError, handlerResult>>
    /\ UNCHANGED <<poVars, outfitVars, uiVars, runVars, gateVars>>

handleClearSlot(slotId) ==
    /\ equippedSlots[slotId] # NoProduct
    /\ equippedSlots' = [equippedSlots EXCEPT ![slotId] = NoProduct]
    /\ UNCHANGED <<isAgentRunning, portraitError, handlerResult>>
    /\ UNCHANGED <<poVars, outfitVars, uiVars, runVars, gateVars>>

\* allSlotIds.reduce(...): the equipped products, in allSlotIds order
PurchaseItems(equipped) ==
    LET filled == SelectSeq(allSlotIds, LAMBDA s : equipped[s] # NoProduct)
    IN  [i \in 1..Len(filled) |->
            Item(equipped[filled[i]], CatalogPrice[equipped[filled[i]]], filled[i])]

\* handleRunAgent while a purchase is running
handleRunAgentBusy ==
    /\ isAgentRunning
    /\ handlerResult' = HandlerMessage(BusyText, 0)
    /\ UNCHANGED <<equippedSlots, isAgentRunning, portraitError>>
    /\ UNCHANGED <<poVars, outfitVars, uiVars, runVars, gateVars>>

\* handleRunAgent with nothing equipped
handleRunAgentEmpty ==
    /\ ~isAgentRunning
    /\ Len(PurchaseItems(equippedSlots)) = 0
    /\ portraitError' = EquipFirstText
    /\ handlerResult' = HandlerMessage(EquipFirstText, 0)
    /\ UNCHANGED <<equippedSlots, isAgentRunning>>
    /\ UNCHANGED <<poVars, outfitVars, uiVars, runVars, gateVars>>

\* handleRunAgent up to `await runAgent(purchaseItems)`
handleRunAgentCall ==
    /\ ~isAgentRunning
    /\ Len(PurchaseItems(equippedSlots)) > 0
    /\ isAgentRunning' = TRUE
    /\ portraitError' = Null
    /\ Invoke(ItemList(PurchaseItems(equippedSlots)), "handler")
    /\ UNCHANGED <<equippedSlots, handlerResult>>
    /\ UNCHANGED <<poVars, outfitVars, uiVars>>

\* what the handler answers when runAgent returned value v for n items:
\* `Purchasing ${n} item(s).`, the value returned is not looked at
AfterReturn(v, n) == HandlerMessage(PurchasingText, n)

\* handleRunAgent from the settling of runAgent on: try / catch / finally
handleRunAgentSettled ==
    /\ caller = "handler"
    /\ agentPc \in {"returned", "thrown"}
    /\ IF agentPc = "returned"
       THEN /\ handlerResult' = AfterReturn(outcome.value, Len(items.elems))
            /\ UNCHANGED portraitError
       ELSE /\ portraitError' = outcome.error.name
            /\ handlerResult' = HandlerMessage(outcome.error.name, 0)
    /\ isAgentRunning' = FALSE
    /\ Forget
    /\ UNCHANGED <<equippedSlots, poVars, outfitVars, uiVars>>

----------------------------------------------------------------------------
(* Callers of the server action other than the wardrobe *)

ItemA == Item("a", Fin(999), "chest")
ItemB == Item("b", Fin(150), "legs")
ItemZero == Item("z", Fin(0), "feet")
ItemNaN == Item("n", NaN, "head")
ItemInf == Item("i", PosInfinity, "bag")
ItemNeg == Item("m", Fin(-5), "hand")

DirectInputs ==
    { NotAList,
      ItemList(<<>>),
      ItemList(<<ItemA>>),
      ItemList(<<ItemA, ItemB>>),
      ItemList(<<ItemZero>>),
      ItemList(<<ItemA, ItemNaN>>),
      ItemList(<<ItemInf, ItemA>>),
      ItemList(<<ItemA, ItemNeg, ItemZero>>) }

\* runAgent(list) called as a server action; a settled run may be followed
\* by another
DirectCall(list) ==
    /\ agentPc \in {"idle", "returned", "thrown"}
    /\ caller # "handler"
    /\ Invoke(list, "direct")
    /\ UNCHANGED <<poVars, outfitVars, uiVars, wardrobeVars>>

----------------------------------------------------------------------------
(* createPurchaseOrder on its own *)

OrderItemIds == <<"p1", "p2", "p3", "p4", "p5", "p6", "p7", "p8", "p9", "p10">>

TestPrices ==
    { Fin(-1), Fin(0), NaN, PosInfinity, NegInfinity,
      Fin(1), Fin(4), Fin(5), Fin(15), Fin(125), Fin(150), Fin(999) }

\* an item list of n items: item i has the i-th id and slot and price prices[i]
OrderInput(n, prices) ==
    ItemList([i \in 1..n |-> Item(OrderItemIds[i], prices[i], allSlotIds[i])])

ApplyCreatePurchaseOrder ==
    /\ poOutput = Pending
    /\ poOutput' = CreatePurchaseOrder(poInput.elems)
    /\ UNCHANGED <<poInput, outfitVars, uiVars, wardrobeVars, runVars, gateVars>>

-----------------------------------------------------------------------------
(* The image pipeline of src/actions/index.ts: generateOutfitImage,        *)
(* composeGarmentWithGemini, removeBackgroundWithGoogle.  Image bytes are  *)
(* short strings; their base64 text is the real encoding of those strings. *)

LAYERING_ORDER == <<"legs", "feet", "chest", "head", "bag",
                    "hand", "neck", "ears", "ring", "waist">>

MAX_GARMENTS_PER_PASS == 2

\* chunks one generateContentStream response may deliver before it ends
MaxChunks == 2

\* an absent Buffer (undefined); an empty Buffer is an object and is truthy
NoBuffer == "undefined"

ImageBytes == {"P0", "Bc", "Bl", "Bh", "Fc", "Fl", "Fh", "G1", "G2"}

\* Buffer.prototype.toString('base64')
ToBase64(bytes) ==
    CASE bytes = "P0" -> "UDA="
      [] bytes = "Bc" -> "QmM="
      [] bytes = "Bl" -> "Qmw="
      [] bytes = "Bh" -> "Qmg="
      [] bytes = "Fc" -> "RmM="
      [] bytes = "Fl" -> "Rmw="
      [] bytes = "Fh" -> "Rmg="
      [] bytes = "G1" -> "RzE="
      [] bytes = "G2" -> "RzI="
      [] OTHER -> ""

\* Buffer.from(text, 'base64')
FromBase64(text) ==
    IF \E b \in ImageBytes : ToBase64(b) = text
    THEN CHOOSE b \in ImageBytes : ToBase64(b) = text
    ELSE ""

\* errors of the image pipeline, as the message the Error carries
ConfigurationMissing == <<"GEMINI_API_KEY must be configured to use this feature.">>
InvalidPortraitDataUrl == <<"Invalid portrait data URL.">>
FailedToLoad(slot, url) == <<"Failed to load slot ", slot, " from ", url>>
NoRenderableAssets == <<"At least one slot needs an image to render an outfit.">>
MissingPortrait == <<"A processed portrait is required before generating.">>
NoUpdatedPortrait == <<"Gemini did not return an updated portrait.">>
NoImageData(chunkCount) ==
    <<"No image data found in Google GenAI response after processing ",
      ToString(chunkCount), " chunks.">>
GenerationRejected == <<"generateContentStream rejected">>

\* a data URL is the tuple of its pieces: "data:", the mime type, ";base64,"
\* and the base64 text; the empty string is <<>>
DataUrl(mimeType, text) == <<"data:", mimeType, ";base64,", text>>

\* dataUrlToBuffer: the regular expression ^data:(.+);base64,(.*)$ must match
dataUrlToBuffer(dataUrl) ==
    IF /\ Len(dataUrl) = 4
       /\ dataUrl[1] = "data:"
       /\ dataUrl[2] # ""
       /\ dataUrl[3] = ";base64,"
    THEN [ok |-> TRUE, mimeType |-> dataUrl[2], buffer |-> FromBase64(dataUrl[4])]
    ELSE [ok |-> FALSE, mimeType |-> "", buffer |-> NoBuffer]

\* the portrait argument: { buffer?, mimeType?, dataUrl? }
Portrait(buffer, mimeType, dataUrl) ==
    [buffer |-> buffer, mimeType |-> mimeType, dataUrl |-> dataUrl]

Portraits ==
    { Portrait("P0", "image/jpeg", <<>>),
      Portrait("P0", "", <<>>),
      Portrait(NoBuffer, "", DataUrl("image/webp", ToBase64("P0"))),
      Portrait(NoBuffer, "", <<"blob:portrait">>),
      Portrait(NoBuffer, "", <<>>) }

\* a slot's value: null, or a WardrobeSlotImage { buffer?, imageUrl? }
NullAsset == [isNull |-> TRUE, buffer |-> NoBuffer, imageUrl |-> ""]
Asset(buffer, imageUrl) == [isNull |-> FALSE, buffer |-> buffer, imageUrl |-> imageUrl]

\* the slots that may hold something; every other slot is null
OutfitSlots == {"chest", "legs", "head"}

SlotBuffer == ("chest" :> "Bc") @@ ("legs" :> "Bl") @@ ("head" :> "Bh")
SlotUrl == ("chest" :> "https://img/chest") @@ ("legs" :> "https://img/legs")
           @@ ("head" :> "https://img/head")

AssetsOf(slot) ==
    { NullAsset,
      Asset(SlotBuffer[slot], ""),
      Asset(NoBuffer, SlotUrl[slot]),
      Asset(NoBuffer, "") }

\* the body a successful fetch of a slot image delivers
FetchedBody(url) ==
    CASE url = "https://img/chest" -> "Fc"
      [] url = "https://img/legs" -> "Fl"
      [] OTHER -> "Fh"

\* the slots argument in full: slots outside OutfitSlots are null
SlotsRecord(inPlay) ==
    [s \in SlotIds |-> IF s \in OutfitSlots THEN inPlay[s] ELSE NullAsset]

\* the orders in which the keys of the slots object may have been written
KeyOrders ==
    { <<"chest", "legs", "head">>, <<"chest", "head", "legs">>,
      <<"legs", "chest", "head">>, <<"legs", "head", "chest">>,
      <<"head", "chest", "legs">>, <<"head", "legs", "chest">> }

\* response parts: text, inlineData with data, inlineData without data
TextPart == [text |-> "t", data |-> ""]
ImagePart(bytes) == [text |-> "", data |-> ToBase64(bytes)]
EmptyInlinePart == [text |-> "", data |-> ""]

\* a chunk is candidates[0].content.parts, <<>> when there is no candidate
Chunks ==
    { <<>>,
      <<TextPart>>,
      <<TextPart, ImagePart("G1")>>,
      <<ImagePart("G1"), ImagePart("G2")>>,
      <<EmptyInlinePart, ImagePart("G2")>> }

OutfitPending == [kind |-> "pending", value |-> <<>>]
OutfitReturned(v) == [kind |-> "returned", value |-> v]
OutfitThrown(e) == [kind |-> "thrown", value |-> e]

\* lines 298-308: the portrait's buffer, else its parsed data URL
ResolvePortrait(p) ==
    IF p.buffer # NoBuffer
    THEN [error |-> <<>>, buffer |-> p.buffer, mimeType |-> p.mimeType]
    ELSE IF p.dataUrl # <<>>
    THEN LET parsed == dataUrlToBuffer(p.dataUrl)
         IN  IF parsed.ok
             THEN [error |-> <<>>, buffer |-> parsed.buffer,
                   mimeType |-> parsed.mimeType]
             ELSE [error |-> InvalidPortraitDataUrl, buffer |-> NoBuffer,
                   mimeType |-> ""]
    ELSE [error |-> <<>>, buffer |-> NoBuffer, mimeType |-> p.mimeType]

resolvedPortraitMimeType(p) ==
    IF ResolvePortrait(p).mimeType = "" THEN "image/png"
    ELSE ResolvePortrait(p).mimeType

\* the order the slot loop visits the slots in, and a mutant that follows
\* the key order of the argument instead
VisitOrderOfKeys(keys) == keys
VisitOrder(keys) == LAYERING_ORDER

\* the slot loop's two "continue" tests without a push: a null slot, or an
\* asset with neither buffer nor imageUrl
SkipsAsset(asset) ==
    \/ asset.isNull
    \/ (asset.buffer = NoBuffer /\ asset.imageUrl = "")

SlotAsset(slot, buffer) == [slot |-> slot, buffer |-> buffer]

\* what a fetch whose response is not ok does to the call, and a mutant
\* that drops the slot and goes on
FetchFailureSkips(slot, url) == OutfitPending
FetchFailure(slot, url) == OutfitThrown(FailedToLoad(slot, url))

\* line 294, and a mutant without the test
NoSlotAssetsNever(assets) == FALSE
NoSlotAssets(assets) == Len(assets) = 0

\* line 305, and a mutant without the test
NoPortraitBufferNever(buffer) == FALSE
NoPortraitBuffer(buffer) == buffer = NoBuffer

\* slotAssets.slice(i, i + MAX_GARMENTS_PER_PASS), and a mutant that takes
\* one garment of each step
PassSliceSingle(assets, i) ==
    SubSeq(assets, i + 1, Min({i + 1, Len(assets)}))
PassSlice(assets, i) ==
    SubSeq(assets, i + 1, Min({i + MAX_GARMENTS_PER_PASS, Len(assets)}))

\* the portraitBuffer handed to composeGarmentWithGemini, and a mutant that
\* hands over the resolved upload every time
PassBaseOriginal(original, working) == original
PassBase(original, working) == working

\* the scan of one chunk's parts for inlineData.data: the data of the first
\* part that has some, "" when none has
RECURSIVE FirstImageFrom(_, _)
FirstImageFrom(parts, i) ==
    IF i > Len(parts) THEN ""
    ELSE IF parts[i].data # "" THEN parts[i].data
    ELSE FirstImageFrom(parts, i + 1)

LastImagePart(parts) ==
    IF \A i \in 1..Len(parts) : parts[i].data = "" THEN ""
    ELSE parts[CHOOSE i \in 1..Len(parts) :
                  /\ parts[i].data # ""
                  /\ \A j \in (i + 1)..Len(parts) : parts[j].data = ""].data
FirstImagePart(parts) == FirstImageFrom(parts, 1)

\* a stream that ends without an image: the function throws; a mutant that
\* keeps the portrait it had and goes on
StreamEndSkips(error) == OutfitPending
StreamEndOutcome(error) == OutfitThrown(error)

\* the image pipeline at rest, as the purchase specifications leave it
OutfitIdleWith(key) ==
    /\ operation = "none"
    /\ geminiKey = key
    /\ portrait = Portrait(NoBuffer, "", <<>>)
    /\ slots = SlotsRecord([s \in OutfitSlots |-> NullAsset])
    /\ slotKeys = <<"chest", "legs", "head">>
    /\ outfitPc = "idle"
    /\ layerIndex = 1
    /\ slotAssets = <<>>
    /\ fetches = <<>>
    /\ workingPortrait = NoBuffer
    /\ passStart = 0
    /\ calls = <<>>
    /\ chunks = <<>>
    /\ outfitOutcome = OutfitPending
    /\ inFlight = <<>>

OutfitIdle == OutfitIdleWith(TRUE)

\* a call of generateOutfitImage({ portrait, slots }) has just been made
OutfitCalled ==
    /\ operation = "generateOutfitImage"
    /\ geminiKey \in BOOLEAN
    /\ portrait \in Portraits
    /\ \E c \in AssetsOf("chest"), l \in AssetsOf("legs"), h \in AssetsOf("head") :
          slots = SlotsRecord(("chest" :> c) @@ ("legs" :> l) @@ ("head" :> h))
    /\ slotKeys \in KeyOrders
    /\ outfitPc = "slots"
    /\ layerIndex = 1
    /\ slotAssets = <<>>
    /\ fetches = <<>>
    /\ workingPortrait = NoBuffer
    /\ passStart = 0
    /\ calls = <<>>
    /\ chunks = <<>>
    /\ outfitOutcome = OutfitPending
    /\ inFlight = <<>>

\* a call of removeBackgroundWithGoogle(buffer, mimeType) has just been made
RemoveBackgroundCalled ==
    /\ operation = "removeBackgroundWithGoogle"
    /\ geminiKey \in BOOLEAN
    /\ portrait \in {Portrait("P0", "image/jpeg", <<>>), Portrait("P0", "", <<>>)}
    /\ slots = SlotsRecord([s \in OutfitSlots |-> NullAsset])
    /\ slotKeys = <<"chest", "legs", "head">>
    /\ outfitPc = "called"
    /\ layerIndex = 1
    /\ slotAssets = <<>>
    /\ fetches = <<>>
    /\ workingPortrait = NoBuffer
    /\ passStart = 0
    /\ calls = <<>>
    /\ chunks = <<>>
    /\ outfitOutcome = OutfitPending
    /\ inFlight = <<>>

OutfitSettle(result) ==
    /\ outfitOutcome' = result
    /\ outfitPc' = result.kind

otherVars == <<poVars, wardrobeVars, runVars, gateVars, uiVars>>

\* an external call: what is called and with what
ExternalCall(kind, target) == [kind |-> kind, target |-> target]

\* the external calls in flight once one of them has settled
Settled(pending, call) ==
    SelectSeq(pending, LAMBDA c : c # call)

\* "await fetchImageBufferFromUrl(...)": the loop is suspended until the
\* fetch settles; a mutant that starts the fetch and goes on
FetchNotAwaited(url) == "slots"
FetchAwaited(url) == "fetching"

\* one turn of the slot loop, lines 272-292, up to its await or its end
VisitSlot ==
    /\ outfitPc = "slots"
    /\ layerIndex <= Len(VisitOrder(slotKeys))
    /\ LET slot == VisitOrder(slotKeys)[layerIndex]
           asset == slots[slot]
       IN  IF SkipsAsset(asset)
           THEN /\ layerIndex' = layerIndex + 1
                /\ UNCHANGED <<outfitPc, slotAssets, fetches, inFlight>>
           ELSE IF asset.buffer # NoBuffer
           THEN /\ slotAssets' = Append(slotAssets, SlotAsset(slot, asset.buffer))
                /\ layerIndex' = layerIndex + 1
                /\ UNCHANGED <<outfitPc, fetches, inFlight>>
           ELSE /\ fetches' = Append(fetches, asset.imageUrl)
                /\ inFlight' = Append(inFlight,
                                      ExternalCall("fetch", asset.imageUrl))
                /\ outfitPc' = FetchAwaited(asset.imageUrl)
                /\ IF FetchAwaited(asset.imageUrl) = "fetching"
                   THEN UNCHANGED layerIndex
                   ELSE layerIndex' = layerIndex + 1
                /\ UNCHANGED slotAssets
    /\ UNCHANGED <<operation, geminiKey, portrait, slots, slotKeys,
                   workingPortrait, passStart, calls, chunks, outfitOutcome>>
    /\ UNCHANGED otherVars

\* fetchImageBufferFromUrl settles: the body when response.ok, else a throw
FetchComplete(ok) ==
    /\ outfitPc = "fetching"
    /\ LET slot == VisitOrder(slotKeys)[layerIndex]
           url == slots[slot].imageUrl
       IN  IF ok
           THEN /\ slotAssets' = Append(slotAssets,
                                        SlotAsset(slot, FetchedBody(url)))
                /\ layerIndex' = layerIndex + 1
                /\ outfitPc' = "slots"
                /\ UNCHANGED outfitOutcome
           ELSE IF FetchFailure(slot, url).kind = "thrown"
           THEN /\ OutfitSettle(FetchFailure(slot, url))
                /\ UNCHANGED <<slotAssets, layerIndex>>
           ELSE /\ layerIndex' = layerIndex + 1
                /\ outfitPc' = "slots"
                /\ UNCHANGED <<slotAssets, outfitOutcome>>
    /\ inFlight' = Settled(inFlight,
            ExternalCall("fetch",
                         slots[VisitOrder(slotKeys)[layerIndex]].imageUrl))
    /\ UNCHANGED <<operation, geminiKey, portrait, slots, slotKeys, fetches,
                   workingPortrait, passStart, calls, chunks>>
    /\ UNCHANGED otherVars

\* lines 294-310, after the slot loop: the two preconditions and the
\* initial workingPortrait
CheckInputs ==
    /\ outfitPc = "slots"
    /\ layerIndex > Len(VisitOrder(slotKeys))
    /\ LET resolved == ResolvePortrait(portrait)
       IN  IF NoSlotAssets(slotAssets)
           THEN /\ OutfitSettle(OutfitThrown(NoRenderableAssets))
                /\ UNCHANGED workingPortrait
           ELSE IF resolved.error # <<>>
           THEN /\ OutfitSettle(OutfitThrown(resolved.error))
                /\ UNCHANGED workingPortrait
           ELSE IF NoPortraitBuffer(resolved.buffer)
           THEN /\ OutfitSettle(OutfitThrown(MissingPortrait))
                /\ UNCHANGED workingPortrait
           ELSE /\ workingPortrait' = resolved.buffer
                /\ outfitPc' = "pass"
                /\ UNCHANGED outfitOutcome
    /\ UNCHANGED <<operation, geminiKey, portrait, slots, slotKeys, layerIndex,
                   slotAssets, fetches, passStart, calls, chunks, inFlight>>
    /\ UNCHANGED otherVars

\* a generateContentStream call as the log keeps it
GenerationCall(base, garments) ==
    [base |-> base, garments |-> garments, output |-> NoBuffer]

\* the head of the pass loop, lines 312-346, and the return of lines 349-353:
\* composeGarmentWithGemini runs ensureGeminiClient, then issues the call
StartPass ==
    /\ outfitPc = "pass"
    /\ IF passStart < Len(slotAssets)
       THEN IF ~geminiKey
            THEN /\ OutfitSettle(OutfitThrown(ConfigurationMissing))
                 /\ UNCHANGED <<calls, chunks, inFlight>>
            ELSE /\ calls' = Append(calls,
                        GenerationCall(
                            PassBase(ResolvePortrait(portrait).buffer,
                                     workingPortrait),
                            PassSlice(slotAssets, passStart)))
                 /\ inFlight' = Append(inFlight,
                        ExternalCall("generateContentStream",
                            PassBase(ResolvePortrait(portrait).buffer,
                                     workingPortrait)))
                 /\ chunks' = <<>>
                 /\ outfitPc' = "generating"
                 /\ UNCHANGED outfitOutcome
       ELSE /\ OutfitSettle(OutfitReturned(
                    DataUrl(resolvedPortraitMimeType(portrait),
                            ToBase64(workingPortrait))))
            /\ UNCHANGED <<calls, chunks, inFlight>>
    /\ UNCHANGED <<operation, geminiKey, portrait, slots, slotKeys, layerIndex,
                   slotAssets, fetches, workingPortrait, passStart>>
    /\ UNCHANGED otherVars

\* removeBackgroundWithGoogle up to its await, lines 360-389
RemoveBackgroundStart ==
    /\ outfitPc = "called"
    /\ operation = "removeBackgroundWithGoogle"
    /\ IF ~geminiKey
       THEN /\ OutfitSettle(OutfitThrown(ConfigurationMissing))
            /\ UNCHANGED <<calls, chunks, inFlight>>
       ELSE /\ calls' = Append(calls, GenerationCall(portrait.buffer, <<>>))
            /\ inFlight' = Append(inFlight,
                   ExternalCall("generateContentStream", portrait.buffer))
            /\ chunks' = <<>>
            /\ outfitPc' = "generating"
            /\ UNCHANGED outfitOutcome
    /\ UNCHANGED <<operation, geminiKey, portrait, slots, slotKeys, layerIndex,
                   slotAssets, fetches, workingPortrait, passStart>>
    /\ UNCHANGED otherVars

\* the generateContentStream call the log ends with
CurrentGeneration(log) ==
    ExternalCall("generateContentStream", log[Len(log)].base)

\* the log with the output of its last call filled in
WithOutput(log, bytes) ==
    [log EXCEPT ![Len(log)] = [@ EXCEPT !.output = bytes]]

\* one turn of "for await (const chunk of response)": lines 245-253 and
\* 392-405
ConsumeChunk(chunk) ==
    /\ outfitPc = "generating"
    /\ Len(chunks) < MaxChunks
    /\ chunks' = Append(chunks, chunk)
    /\ LET data == FirstImagePart(chunk)
       IN  IF data = ""
           THEN UNCHANGED <<outfitPc, workingPortrait, passStart, calls,
                            outfitOutcome, inFlight>>
           ELSE IF operation = "generateOutfitImage"
           THEN /\ workingPortrait' = FromBase64(data)
                /\ inFlight' = Settled(inFlight, CurrentGeneration(calls))
                /\ calls' = WithOutput(calls, FromBase64(data))
                /\ passStart' = passStart + MAX_GARMENTS_PER_PASS
                /\ outfitPc' = "pass"
                /\ UNCHANGED outfitOutcome
           ELSE /\ calls' = WithOutput(calls, FromBase64(data))
                /\ inFlight' = Settled(inFlight, CurrentGeneration(calls))
                /\ OutfitSettle(OutfitReturned(<<FromBase64(data)>>))
                /\ UNCHANGED <<workingPortrait, passStart>>
    /\ UNCHANGED <<operation, geminiKey, portrait, slots, slotKeys, layerIndex,
                   slotAssets, fetches>>
    /\ UNCHANGED otherVars

\* the stream ends with no image found: lines 255 and 407-409
StreamEnds ==
    /\ outfitPc = "generating"
    /\ LET error == IF operation = "generateOutfitImage"
                    THEN NoUpdatedPortrait
                    ELSE NoImageData(Len(chunks))
       IN  IF StreamEndOutcome(error).kind = "thrown"
           THEN /\ OutfitSettle(StreamEndOutcome(error))
                /\ UNCHANGED passStart
           ELSE /\ passStart' = passStart + MAX_GARMENTS_PER_PASS
                /\ outfitPc' = "pass"
                /\ UNCHANGED outfitOutcome
    /\ inFlight' = Settled(inFlight, CurrentGeneration(calls))
    /\ UNCHANGED <<operation, geminiKey, portrait, slots, slotKeys, layerIndex,
                   slotAssets, fetches, workingPortrait, calls, chunks>>
    /\ UNCHANGED otherVars

\* generateContentStream, or its stream, rejects
GenerationFails ==
    /\ outfitPc = "generating"
    /\ OutfitSettle(OutfitThrown(GenerationRejected))
    /\ inFlight' = Settled(inFlight, CurrentGeneration(calls))
    /\ UNCHANGED <<operation, geminiKey, portrait, slots, slotKeys, layerIndex,
                   slotAssets, fetches, workingPortrait, passStart, calls,
                   chunks>>
    /\ UNCHANGED otherVars

-----------------------------------------------------------------------------
(* The wardrobe's catalogue of src/components/wardrobe.tsx: the product    *)
(* deck, the saved products, the slot menus (slotOptionsMap) and the voice *)
(* equip handler.  Text is a tuple of characters.                          *)

\* String.prototype.toLowerCase on the letters the texts use
UpperToLower ==
    ("A" :> "a") @@ ("B" :> "b") @@ ("C" :> "c") @@ ("D" :> "d") @@
    ("E" :> "e") @@ ("F" :> "f") @@ ("G" :> "g") @@ ("H" :> "h") @@
    ("I" :> "i") @@ ("J" :> "j") @@ ("K" :> "k") @@ ("L" :> "l") @@
    ("M" :> "m") @@ ("N" :> "n") @@ ("O" :> "o") @@ ("P" :> "p") @@
    ("Q" :> "q") @@ ("R" :> "r") @@ ("S" :> "s") @@ ("T" :> "t") @@
    ("U" :> "u") @@ ("V" :> "v") @@ ("W" :> "w") @@ ("X" :> "x") @@
    ("Y" :> "y") @@ ("Z" :> "z")

ToLowerCase(text) ==
    [i \in 1..Len(text) |->
        IF text[i] \in DOMAIN UpperToLower THEN UpperToLower[text[i]]
        ELSE text[i]]

\* String.prototype.includes
Includes(haystack, needle) ==
    \E i \in 0..(Len(haystack) - Len(needle)) :
        SubSeq(haystack, i + 1, i + Len(needle)) = needle

\* String.prototype.trim, for texts padded with spaces
RECURSIVE TrimStart(_)
TrimStart(text) ==
    IF text # <<>> /\ Head(text) = " " THEN TrimStart(Tail(text)) ELSE text

RECURSIVE TrimEnd(_)
TrimEnd(text) ==
    IF text # <<>> /\ text[Len(text)] = " "
    THEN TrimEnd(SubSeq(text, 1, Len(text) - 1))
    ELSE text

Trim(text) == TrimEnd(TrimStart(text))

\* slotKeywordMap: each keyword as the tuple of its characters
slotKeywordMap ==
    ("head" :> {
          <<"h", "a", "t">>, <<"h", "e", "l", "m", "e", "t">>,
          <<"c", "a", "p">>, <<"b", "e", "a", "n", "i", "e">>,
          <<"v", "i", "s", "o", "r">>,
          <<"h", "e", "a", "d", "b", "a", "n", "d">>,
          <<"b", "u", "c", "k", "e", "t", " ", "h", "a", "t">>,
          <<"s", "u", "n", " ", "h", "a", "t">>})
    @@ ("chest" :> {
          <<"s", "h", "i", "r", "t">>, <<"t", "e", "e">>,
          <<"t", "-", "s", "h", "i", "r", "t">>,
          <<"r", "a", "s", "h", " ", "g", "u", "a", "r", "d">>,
          <<"r", "a", "s", "h", "g", "u", "a", "r", "d">>,
          <<"h", "o", "o", "d", "i", "e">>, <<"j", "a", "c", "k", "e", "t">>,
          <<"t", "o", "p">>, <<"v", "e", "s", "t">>,
          <<"l", "o", "n", "g", " ", "s", "l", "e", "e", "v", "e">>,
          <<"p", "u", "l", "l", "o", "v", "e", "r">>,
          <<"s", "w", "e", "a", "t", "e", "r">>, <<"c", "r", "e", "w">>,
          <<"t", "a", "n", "k">>, <<"j", "e", "r", "s", "e", "y">>,
          <<"f", "l", "e", "e", "c", "e">>})
    @@ ("waist" :> {
          <<"b", "e", "l", "t">>, <<"w", "a", "i", "s", "t">>,
          <<"f", "a", "n", "n", "y">>,
          <<"h", "i", "p", " ", "p", "a", "c", "k">>,
          <<"u", "t", "i", "l", "i", "t", "y", " ", "b", "e", "l", "t">>,
          <<"s", "a", "s", "h">>, <<"w", "r", "a", "p">>})
    @@ ("legs" :> {
          <<"s", "h", "o", "r", "t">>, <<"s", "h", "o", "r", "t", "s">>,
          <<"p", "a", "n", "t">>, <<"p", "a", "n", "t", "s">>,
          <<"t", "r", "o", "u", "s", "e", "r">>,
          <<"t", "r", "o", "u", "s", "e", "r", "s">>,
          <<"l", "e", "g", "g", "i", "n", "g">>,
          <<"l", "e", "g", "g", "i", "n", "g", "s">>,
          <<"t", "i", "g", "h", "t">>, <<"t", "i", "g", "h", "t", "s">>,
          <<"b", "o", "a", "r", "d", "s", "h", "o", "r", "t">>,
          <<"b", "o", "a", "r", "d", "s", "h", "o", "r", "t", "s">>,
          <<"b", "a", "g", "g", "i", "e", "s">>, <<"j", "e", "a", "n">>,
          <<"j", "e", "a", "n", "s">>, <<"b", "o", "t", "t", "o", "m">>,
          <<"s", "k", "i", "r", "t">>})
    @@ ("feet" :> {
          <<"s", "h", "o", "e">>, <<"s", "h", "o", "e", "s">>,
          <<"b", "o", "o", "t">>, <<"b", "o", "o", "t", "s">>,
          <<"s", "a", "n", "d", "a", "l">>,
          <<"s", "a", "n", "d", "a", "l", "s">>,
          <<"f", "l", "i", "p", "-", "f", "l", "o", "p">>,
          <<"f", "l", "i", "p", " ", "f", "l", "o", "p">>,
          <<"f", "l", "o", "p">>, <<"s", "n", "e", "a", "k", "e", "r">>,
          <<"s", "n", "e", "a", "k", "e", "r", "s">>, <<"s", "o", "c", "k">>,
          <<"s", "o", "c", "k", "s">>, <<"s", "l", "i", "d", "e">>,
          <<"s", "l", "i", "d", "e", "s">>})
    @@ ("ears" :> {
          <<"e", "a", "r", "r", "i", "n", "g">>,
          <<"e", "a", "r", " ", "r", "i", "n", "g">>,
          <<"e", "a", "r", " ", "c", "u", "f", "f">>,
          <<"e", "a", "r", " ", "s", "t", "u", "d">>,
          <<"e", "a", "r", " ", "h", "o", "o", "p">>})
    @@ ("neck" :> {
          <<"n", "e", "c", "k", "l", "a", "c", "e">>,
          <<"s", "c", "a", "r", "f">>, <<"c", "h", "a", "i", "n">>,
          <<"n", "e", "c", "k", " ", "g", "a", "i", "t", "e", "r">>,
          <<"b", "a", "n", "d", "a", "n", "a">>,
          <<"c", "h", "o", "k", "e", "r">>})
    @@ ("bag" :> {
          <<"b", "a", "g">>, <<"b", "a", "c", "k", "p", "a", "c", "k">>,
          <<"b", "a", "c", "k", " ", "p", "a", "c", "k">>,
          <<"t", "o", "t", "e">>, <<"d", "u", "f", "f", "l", "e">>,
          <<"d", "u", "f", "f", "e", "l">>,
          <<"d", "r", "y", " ", "b", "a", "g">>, <<"s", "l", "i", "n", "g">>,
          <<"s", "a", "t", "c", "h", "e", "l">>, <<"p", "o", "u", "c", "h">>})
    @@ ("hand" :> {
          <<"g", "l", "o", "v", "e">>, <<"g", "l", "o", "v", "e", "s">>,
          <<"m", "i", "t", "t", "e", "n">>,
          <<"m", "i", "t", "t", "e", "n", "s">>,
          <<"s", "u", "r", "f", "b", "o", "a", "r", "d">>,
          <<"l", "o", "n", "g", "b", "o", "a", "r", "d">>,
          <<"s", "h", "o", "r", "t", "b", "o", "a", "r", "d">>,
          <<"p", "a", "d", "d", "l", "e">>, <<"w", "a", "x">>,
          <<"l", "e", "a", "s", "h">>, <<"f", "i", "n">>})
    @@ ("ring" :> {
          <<"r", "i", "n", "g">>, <<"b", "a", "n", "d">>,
          <<"s", "i", "g", "n", "e", "t">>})

slotFallbackPriority == <<"chest", "legs", "hand", "bag">>

\* the slot ids as text, for isSlotId
SlotChars ==
    ("head" :> <<"h", "e", "a", "d">>)
    @@ ("chest" :> <<"c", "h", "e", "s", "t">>)
    @@ ("waist" :> <<"w", "a", "i", "s", "t">>)
    @@ ("legs" :> <<"l", "e", "g", "s">>)
    @@ ("feet" :> <<"f", "e", "e", "t">>)
    @@ ("ears" :> <<"e", "a", "r", "s">>)
    @@ ("neck" :> <<"n", "e", "c", "k">>)
    @@ ("bag" :> <<"b", "a", "g">>)
    @@ ("hand" :> <<"h", "a", "n", "d">>)
    @@ ("ring" :> <<"r", "i", "n", "g">>)

\* the products the catalogue can deliver (ProductSummary), by id
ProductSummaries ==
    {
      [id |-> "a",
       name |-> <<"D", "e", "n", "i", "m", " ", "J", "a", "c", "k", "e", "t">>,
       price |-> CatalogPrice["a"], hasDescription |-> TRUE,
       description |->
         <<"P", "a", "i", "r", "s", " ", "w", "i", "t", "h", " ", "J", "E", "A", "N", " ", "c", "u", "t", "s">>],
      [id |-> "b",
       name |-> <<"H", "i", "p">>,
       price |-> CatalogPrice["b"], hasDescription |-> TRUE,
       description |->
         <<"P", "a", "c", "k">>],
      [id |-> "z",
       name |-> <<"G", "i", "f", "t", " ", "C", "a", "r", "d">>,
       price |-> CatalogPrice["z"], hasDescription |-> FALSE,
       description |->
         <<>>],
      [id |-> "e",
       name |-> <<"E", "a", "r", "r", "i", "n", "g">>,
       price |-> Fin(25), hasDescription |-> FALSE,
       description |->
         <<>>] }

CatalogIds == {p.id : p \in ProductSummaries}
Product(id) == CHOOSE p \in ProductSummaries : p.id = id

\* the product lists the page may be given (initialProducts)
InitialProductLists == { <<"a", "b", "z", "e">>, <<"e", "z">> }

\* `${product.name} ${product.description ?? ''}`.toLowerCase()
buildProductSearchText(product) ==
    ToLowerCase(product.name \o <<" ">> \o
                (IF product.hasDescription THEN product.description ELSE <<>>))

\* productMatchesSlot, and a mutant that reads the name only
productMatchesSlotByName(product, slotId) ==
    \E keyword \in slotKeywordMap[slotId] :
        Includes(ToLowerCase(product.name), keyword)
productMatchesSlot(product, slotId) ==
    /\ slotKeywordMap[slotId] # {}
    /\ \E keyword \in slotKeywordMap[slotId] :
          Includes(buildProductSearchText(product), keyword)

\* matchedSlots of slotOptionsMap: the slots the product matches, in
\* allSlotIds order
MatchedSlots(product) ==
    SelectSeq(allSlotIds, LAMBDA slotId : productMatchesSlot(product, slotId))

\* the matched slots and the search text of every product of the catalogue
MatchedSlotsOf == [id \in CatalogIds |-> MatchedSlots(Product(id))]
SearchTextOf == [id \in CatalogIds |-> buildProductSearchText(Product(id))]

\* "matchedSlots.length === 0", and a mutant that never falls back
NeedsFallbackNever(matched) == FALSE
NeedsFallback(matched) == Len(matched) = 0

NoSlot == "undefined"

\* slotFallbackPriority.find((slotId) => map[slotId]), and a mutant that
\* searches the list from its end
FallbackSlotFromEnd(map) ==
    LET present == SelectSeq(slotFallbackPriority,
                             LAMBDA slotId : slotId \in DOMAIN map)
    IN  IF present = <<>> THEN NoSlot ELSE present[Len(present)]
FallbackSlot(map) ==
    LET present == SelectSeq(slotFallbackPriority,
                             LAMBDA slotId : slotId \in DOMAIN map)
    IN  IF present = <<>> THEN NoSlot ELSE Head(present)

\* the body of savedProducts.forEach in slotOptionsMap
AddToSlotOptions(map, id) ==
    LET matched == MatchedSlotsOf[id]
    IN  IF NeedsFallback(matched)
        THEN IF FallbackSlot(map) = NoSlot THEN map
             ELSE [map EXCEPT ![FallbackSlot(map)] = Append(@, id)]
        ELSE [slotId \in DOMAIN map |->
                 IF \E i \in 1..Len(matched) : matched[i] = slotId
                 THEN Append(map[slotId], id)
                 ELSE map[slotId]]

\* slotOptionsMap as useMemo computes it from savedProducts
RECURSIVE SlotOptionsFrom(_, _, _)
SlotOptionsFrom(map, saved, i) ==
    IF i > Len(saved) THEN map
    ELSE SlotOptionsFrom(AddToSlotOptions(map, saved[i]), saved, i + 1)

SlotOptionsMapOf(saved) ==
    SlotOptionsFrom([slotId \in SlotIds |-> <<>>], saved, 1)

\* prev.filter((item) => item.id !== product.id)
WithoutProduct(list, id) == SelectSeq(list, LAMBDA item : item # id)

\* the setSavedProducts updater of handleProductSwipe and ensureProductSaved
WithSaved(saved, id) ==
    IF \E i \in 1..Len(saved) : saved[i] = id THEN saved
    ELSE Append(saved, id)

\* what handleVoiceEquipProduct returns
VoiceResult(text, id, slotId) == [text |-> text, id |-> id, slotId |-> slotId]
NoVoiceResult == VoiceResult("none", "", NoSlot)
InvalidSlotResult == VoiceResult("Choose a valid wardrobe slot", "", NoSlot)
NeedProductResult ==
    VoiceResult("Tell me which product to equip by name or product ID.",
                "", NoSlot)
NotFoundResult ==
    VoiceResult("I could not find that product in the saved wardrobe yet.",
                "", NoSlot)
EquippedResult(id, slotId) == VoiceResult("Equipped", id, slotId)

restOfCatalog ==
    <<poVars, runVars, gateVars, outfitVars, studioVars, routeVars,
      purchaseVars>>

CatalogInit ==
    /\ productDeck \in InitialProductLists
    /\ savedProducts = <<>>
    /\ slotOptionsMap = SlotOptionsMapOf(<<>>)
    /\ voiceResult = NoVoiceResult

\* the catalogue as the other specifications leave it
CatalogIdle ==
    /\ productDeck = <<>>
    /\ savedProducts = <<>>
    /\ slotOptionsMap = SlotOptionsMapOf(<<>>)
    /\ voiceResult = NoVoiceResult

\* the effect of lines 262-268 when the page is given a new product list
ResetWardrobe(initialProducts) ==
    /\ productDeck' = initialProducts
    /\ savedProducts' = <<>>
    /\ slotOptionsMap' = SlotOptionsMapOf(<<>>)
    /\ equippedSlots' = [s \in SlotIds |-> NoProduct]
    /\ UNCHANGED <<voiceResult, isAgentRunning, portraitError, handlerResult>>
    /\ UNCHANGED restOfCatalog

\* handleProductSwipe, with the re-render that recomputes slotOptionsMap
handleProductSwipe(id, direction) ==
    /\ productDeck' = WithoutProduct(productDeck, id)
    /\ IF direction # "right"
       THEN UNCHANGED <<savedProducts, slotOptionsMap>>
       ELSE /\ savedProducts' = WithSaved(savedProducts, id)
            /\ slotOptionsMap' = SlotOptionsMapOf(savedProducts')
    /\ UNCHANGED <<voiceResult, wardrobeVars>>
    /\ UNCHANGED restOfCatalog

\* isSlotId(normalizedSlot): the slot the text names, NoSlot when none
SlotNamed(text) ==
    IF \E slotId \in SlotIds : SlotChars[slotId] = text
    THEN CHOOSE slotId \in SlotIds : SlotChars[slotId] = text
    ELSE NoSlot

\* findProductCandidate: the first product of saved, deck and equipped
\* products that has the id or whose text includes the query
FindProductCandidate(productId, normalizedQuery) ==
    LET equippedPool ==
            SelectSeq([i \in 1..Len(allSlotIds) |-> equippedSlots[allSlotIds[i]]],
                      LAMBDA item : item # NoProduct)
        pools == savedProducts \o productDeck \o equippedPool
        matcher(id) ==
            \/ (productId # "" /\ id = productId)
            \/ /\ normalizedQuery # <<>>
               /\ Includes(SearchTextOf[id], normalizedQuery)
        found == SelectSeq(pools, matcher)
    IN  IF found = <<>> THEN NoProduct ELSE Head(found)

\* handleVoiceEquipProduct({ slotId, productId, productName }); an absent
\* productId is "", an absent productName is <<>>
handleVoiceEquipProduct(slotId, productId, productName) ==
    LET normalizedSlot == ToLowerCase(slotId)
        normalizedQuery == ToLowerCase(Trim(productName))
        product == FindProductCandidate(productId, normalizedQuery)
    IN  /\ IF normalizedSlot = <<>> \/ SlotNamed(normalizedSlot) = NoSlot
           THEN /\ voiceResult' = InvalidSlotResult
                /\ UNCHANGED <<productDeck, savedProducts, slotOptionsMap,
                               equippedSlots>>
           ELSE IF productId = "" /\ normalizedQuery = <<>>
           THEN /\ voiceResult' = NeedProductResult
                /\ UNCHANGED <<productDeck, savedProducts, slotOptionsMap,
                               equippedSlots>>
           ELSE IF product = NoProduct
           THEN /\ voiceResult' = NotFoundResult
                /\ UNCHANGED <<productDeck, savedProducts, slotOptionsMap,
                               equippedSlots>>
           ELSE /\ productDeck' = WithoutProduct(productDeck, product)
                /\ savedProducts' = WithSaved(savedProducts, product)
                /\ slotOptionsMap' = SlotOptionsMapOf(savedProducts')
                /\ equippedSlots' =
                      [equippedSlots EXCEPT ![SlotNamed(normalizedSlot)] = product]
                /\ voiceResult' =
                      EquippedResult(product, SlotNamed(normalizedSlot))
        /\ UNCHANGED <<isAgentRunning, portraitError, handlerResult>>
        /\ UNCHANGED restOfCatalog

\* what the voice assistant may ask for
VoiceRequest(slotId, productId, productName) ==
    [slotId |-> slotId, productId |-> productId, productName |-> productName]

VoiceRequests ==
    LET Chest == <<"C", "h", "e", "s", "t">>
        Ring == <<"r", "i", "n", "g">>
    IN  { VoiceRequest(<<"t", "a", "i", "l">>, "z", <<>>),
          VoiceRequest(<<>>, "z", <<>>),
          VoiceRequest(Chest, "", <<>>),
          VoiceRequest(Chest, "", <<" ", " ">>),
          VoiceRequest(Chest, "nope", <<>>),
          VoiceRequest(Chest, "z", <<>>),
          VoiceRequest(Chest, "", <<" ", "J", "A", "C", "K", "E", "T", " ">>),
          VoiceRequest(Ring, "", Ring),
          VoiceRequest(Ring, "nope", <<"p", "a", "c", "k">>) }

-----------------------------------------------------------------------------
(* The portrait studio of src/components/wardrobe.tsx: the portrait upload *)
(* (handlePortraitFileChange) with the portrait route behind it, and       *)
(* handleGenerateOutfit, both driving the image pipeline above.            *)

\* portraits posted, and generations started, in one session
MaxUploads == 2
MaxRenders == 2

maxSizeBytes == 5 * 1024 * 1024

allowedMimeTypes ==
    {"image/png", "image/jpeg", "image/jpg", "image/webp", "image/heic",
     "image/heif"}

\* a File: its size in bytes and its declared type ("" when the browser
\* could not tell)
File(size, type) == [size |-> size, type |-> type]

Files ==
    { File(maxSizeBytes, "image/jpeg"),
      File(maxSizeBytes + 1, "image/png"),
      File(1024, "image/gif"),
      File(1024, ""),
      File(maxSizeBytes + 1, "") }

\* the two validations of handlePortraitFileChange: the error they set, Null
\* when the file goes on to the endpoint
PortraitValidation(file) ==
    IF file.size > maxSizeBytes THEN "Portrait must be 5 MB or smaller."
    ELSE IF file.type # "" /\ file.type \notin allowedMimeTypes
    THEN "Portrait must be a JPG, PNG, HEIC, or WEBP image."
    ELSE Null

\* the image URL of each product ("" when it has none)
ProductImageUrl ==
    ("a" :> "https://img/chest") @@ ("b" :> "https://img/legs") @@ ("z" :> "")

\* slotsPayload of handleGenerateOutfit
SlotsPayload(equipped) ==
    [slotId \in SlotIds |->
        IF equipped[slotId] # NoProduct /\ ProductImageUrl[equipped[slotId]] # ""
        THEN Asset(NoBuffer, ProductImageUrl[equipped[slotId]])
        ELSE NullAsset]

hasAnyEquipped == \E slotId \in SlotIds : equippedSlots[slotId] # NoProduct

AlreadyGeneratingText == "Already generating an outfit preview."
UploadFirstText == "Upload a portrait before generating an outfit."
EquipSavedFirstText == "Equip at least one slot using your saved finds first."
OutfitAppliedText == "Outfit applied to your portrait."

restOfStudio ==
    <<poVars, runVars, gateVars, catalogVars, routeVars, purchaseVars>>

\* the image pipeline is handed a call
PipelineCall(op, p, s, pc) ==
    /\ operation' = op
    /\ portrait' = p
    /\ slots' = s
    /\ outfitPc' = pc
    /\ slotKeys' = <<"chest", "legs", "head">>
    /\ layerIndex' = 1
    /\ slotAssets' = <<>>
    /\ fetches' = <<>>
    /\ workingPortrait' = NoBuffer
    /\ passStart' = 0
    /\ calls' = <<>>
    /\ chunks' = <<>>
    /\ outfitOutcome' = OutfitPending
    /\ inFlight' = <<>>
    /\ UNCHANGED geminiKey

\* the call is over and its frame is gone
PipelineForget ==
    PipelineCall("none", Portrait(NoBuffer, "", <<>>),
                 SlotsRecord([s \in OutfitSlots |-> NullAsset]), "idle")

StudioInit ==
    /\ uploadPc = "idle"
    /\ endpointRequests = <<>>
    /\ isPortraitUploading = FALSE
    /\ portraitPreviewUrl = <<>>
    /\ generatedOutfitUrl = <<>>
    /\ outfitError = <<>>
    /\ isGeneratingOutfit = FALSE
    /\ generateResult = Null
    /\ renderCount = 0
    /\ lastComposite = <<>>

\* handlePortraitFileChange up to its await: the validations, then the POST
\* of the file to /api/virtual-try-on/portrait, whose route hands the bytes
\* to removeBackgroundWithGoogle
handlePortraitFileChange(file) ==
    /\ uploadPc = "idle"
    /\ operation = "none"
    /\ Len(endpointRequests) < MaxUploads
    /\ IF PortraitValidation(file) # Null
       THEN /\ portraitError' = PortraitValidation(file)
            /\ UNCHANGED <<uploadPc, endpointRequests, isPortraitUploading,
                           outfitVars>>
       ELSE /\ portraitError' = Null
            /\ isPortraitUploading' = TRUE
            /\ endpointRequests' = Append(endpointRequests, file)
            /\ uploadPc' = "posted"
            /\ PipelineCall("removeBackgroundWithGoogle",
                            Portrait("P0", file.type, <<>>),
                            SlotsRecord([s \in OutfitSlots |-> NullAsset]),
                            "called")
    /\ UNCHANGED <<portraitPreviewUrl, generatedOutfitUrl, outfitError,
                   isGeneratingOutfit, generateResult, renderCount,
                   lastComposite>>
    /\ UNCHANGED <<equippedSlots, isAgentRunning, handlerResult>>
    /\ UNCHANGED restOfStudio

\* the route answers and handlePortraitFileChange resumes: the data URL of
\* the processed portrait is stored, or the error is shown
PortraitResponse ==
    /\ uploadPc = "posted"
    /\ outfitPc \in {"returned", "thrown"}
    /\ IF outfitPc = "returned"
       THEN /\ portraitPreviewUrl' =
                  DataUrl("image/png", ToBase64(outfitOutcome.value[1]))
            /\ generatedOutfitUrl' = <<>>
            /\ outfitError' = <<>>
            /\ UNCHANGED portraitError
       ELSE /\ portraitError' = outfitOutcome.value[1]
            /\ UNCHANGED <<portraitPreviewUrl, generatedOutfitUrl, outfitError>>
    /\ isPortraitUploading' = FALSE
    /\ uploadPc' = "idle"
    /\ PipelineForget
    /\ UNCHANGED <<endpointRequests, isGeneratingOutfit, generateResult,
                   renderCount, lastComposite>>
    /\ UNCHANGED <<equippedSlots, isAgentRunning, handlerResult>>
    /\ UNCHANGED restOfStudio

\* handleGenerateOutfit up to its await
handleGenerateOutfit ==
    /\ IF isGeneratingOutfit
       THEN /\ generateResult' = AlreadyGeneratingText
            /\ UNCHANGED <<outfitError, isGeneratingOutfit, renderCount,
                           outfitVars>>
       ELSE IF portraitPreviewUrl = <<>>
       THEN /\ outfitError' = <<UploadFirstText>>
            /\ generateResult' = UploadFirstText
            /\ UNCHANGED <<isGeneratingOutfit, renderCount, outfitVars>>
       ELSE IF ~hasAnyEquipped
       THEN /\ outfitError' = <<EquipSavedFirstText>>
            /\ generateResult' = EquipSavedFirstText
            /\ UNCHANGED <<isGeneratingOutfit, renderCount, outfitVars>>
       ELSE /\ operation = "none"
            /\ renderCount < MaxRenders
            /\ renderCount' = renderCount + 1
            /\ isGeneratingOutfit' = TRUE
            /\ outfitError' = <<>>
            /\ PipelineCall("generateOutfitImage",
                            Portrait(NoBuffer, "", portraitPreviewUrl),
                            SlotsPayload(equippedSlots), "slots")
            /\ UNCHANGED generateResult
    /\ UNCHANGED <<uploadPc, endpointRequests, isPortraitUploading,
                   portraitPreviewUrl, generatedOutfitUrl, lastComposite>>
    /\ UNCHANGED wardrobeVars
    /\ UNCHANGED restOfStudio

\* what is stored as the portrait once a generation has returned an image,
\* and a mutant that keeps the portrait it had
StoredPortraitKept(image, old) == old
StoredPortrait(image, old) == image

\* generateOutfitImage settles and handleGenerateOutfit resumes
handleGenerateOutfitSettled ==
    /\ isGeneratingOutfit
    /\ operation = "generateOutfitImage"
    /\ outfitPc \in {"returned", "thrown"}
    /\ IF outfitPc = "returned"
       THEN /\ generatedOutfitUrl' = outfitOutcome.value
            /\ portraitPreviewUrl' =
                  StoredPortrait(outfitOutcome.value, portraitPreviewUrl)
            /\ lastComposite' = outfitOutcome.value
            /\ generateResult' = OutfitAppliedText
            /\ UNCHANGED outfitError
       ELSE /\ outfitError' = outfitOutcome.value
            /\ generateResult' = outfitOutcome.value[1]
            /\ UNCHANGED <<generatedOutfitUrl, portraitPreviewUrl,
                           lastComposite>>
    /\ isGeneratingOutfit' = FALSE
    /\ PipelineForget
    /\ UNCHANGED <<uploadPc, endpointRequests, isPortraitUploading,
                   renderCount>>
    /\ UNCHANGED wardrobeVars
    /\ UNCHANGED restOfStudio

\* the chunks the image model answers with in the studio
StudioChunks == { <<TextPart>>, <<ImagePart("G1")>>, <<ImagePart("G2")>> }

-----------------------------------------------------------------------------
(* The product search route, src/app/api/products/search/route.ts 5-51 *)

DEFAULT_LIMIT == 4
MAX_LIMIT == 15

\* a finite number of the request body, held in tenths: Tenths(159) is 15.9
Tenths(t) == Fin(t)
Whole(n) == Tenths(10 * n)

\* Math.floor of a finite number, and a mutant that leaves the fraction
MathFloorKeeps(x) == x
MathFloor(x) == Tenths((x.v \div 10) * 10)

MathMin(x, y) == IF x.v <= y.v THEN x ELSE y
MathMax(x, y) == IF x.v >= y.v THEN x ELSE y

\* a JSON value of the payload, or undefined for a property that is absent
JsonUndefined == [t |-> "undefined", s |-> <<>>, n |-> NaN]
JsonString(chars) == [t |-> "string", s |-> chars, n |-> NaN]
JsonNumber(x) == [t |-> "number", s |-> <<>>, n |-> x]

\* a request body: whether request.json() parses it, and the query and limit
\* properties of the payload (both undefined for a payload that is null)
Body(parses, query, limit) == [parses |-> parses, query |-> query, limit |-> limit]

Queries ==
    { JsonUndefined,
      JsonNumber(Whole(7)),
      JsonString(<<>>),
      JsonString(<<" ", " ">>),
      JsonString(<<"s", "u", "r", "f">>),
      JsonString(<<" ", "r", "e", "d", " ">>) }

Limits ==
    { JsonUndefined, JsonString(<<"1", "0">>),
      JsonNumber(NaN), JsonNumber(PosInfinity), JsonNumber(NegInfinity) }
    \cup { JsonNumber(Tenths(t)) :
             t \in {-30, -5, 0, 5, 9, 10, 15, 40, 149, 150, 159, 160, 1000} }

Bodies ==
    { Body(FALSE, JsonUndefined, JsonUndefined) }
    \cup { Body(TRUE, query, limit) : query \in Queries, limit \in Limits }

\* lines 20-23: the trimmed query, or '' when the property is not a string
QueryOf(body) ==
    IF body.query.t = "string" THEN Trim(body.query.s) ELSE <<>>

\* lines 35-39
LimitOf(body) ==
    IF body.limit.t = "number" /\ NumberIsFinite(body.limit.n)
    THEN MathMax(Whole(1), MathMin(Whole(MAX_LIMIT), MathFloor(body.limit.n)))
    ELSE Whole(DEFAULT_LIMIT)

Response(status) == [status |-> status]
NoResponse == Response(0)

RouteIdle ==
    /\ routePc = "idle"
    /\ request = Body(FALSE, JsonUndefined, JsonUndefined)
    /\ searchArgs = <<>>
    /\ response = NoResponse

restOfRoute ==
    <<poVars, wardrobeVars, runVars, gateVars, outfitVars, catalogVars,
      studioVars, purchaseVars>>

\* POST up to `await searchProducts(query, limit)`, lines 8-42
SearchPost(body) ==
    /\ routePc = "idle"
    /\ request' = body
    /\ IF ~body.parses \/ QueryOf(body) = <<>>
       THEN /\ response' = Response(400)
            /\ searchArgs' = <<>>
            /\ UNCHANGED routePc
       ELSE /\ searchArgs' = <<QueryOf(body), LimitOf(body)>>
            /\ response' = NoResponse
            /\ routePc' = "searching"
    /\ UNCHANGED restOfRoute

\* searchProducts settles, lines 42-50
SearchSettles(ok) ==
    /\ routePc = "searching"
    /\ response' = Response(IF ok THEN 200 ELSE 500)
    /\ routePc' = "idle"
    /\ UNCHANGED <<request, searchArgs>>
    /\ UNCHANGED restOfRoute

-----------------------------------------------------------------------------
(* Purchase requests against the handler of the last render,               *)
(* src/components/wardrobe.tsx 536-577 and 630-638                         *)

\* runAgent calls the wardrobe may have in flight in the model
MaxRuns == 2

PurchaseIdle ==
    /\ renderedIsAgentRunning = FALSE
    /\ renderedEquippedSlots = [s \in SlotIds |-> NoProduct]
    /\ runsInFlight = <<>>

restOfPurchase ==
    <<poVars, runVars, gateVars, outfitVars, catalogVars, studioVars,
      routeVars>>

\* the component renders again: handleRunAgent is made anew over the current
\* state (useCallback, deps of line 577) and the handle and the button get it
Render ==
    /\ \/ renderedIsAgentRunning # isAgentRunning
       \/ renderedEquippedSlots # equippedSlots
    /\ renderedIsAgentRunning' = isAgentRunning
    /\ renderedEquippedSlots' = equippedSlots
    /\ UNCHANGED <<runsInFlight, wardrobeVars>>
    /\ UNCHANGED restOfPurchase

\* what handleRunAgent tests at line 537: the isAgentRunning of the render
\* that made it, not the state as it is now
RunningSeen == renderedIsAgentRunning

\* a purchase request, by the button or by purchaseEquipped of the handle:
\* handleRunAgent of the last render, up to `await runAgent(purchaseItems)`;
\* a run in flight is held by the number of items it was given
purchaseEquipped ==
    /\ IF RunningSeen
       THEN /\ handlerResult' = HandlerMessage(BusyText, 0)
            /\ UNCHANGED <<isAgentRunning, portraitError, runsInFlight>>
       ELSE IF Len(PurchaseItems(renderedEquippedSlots)) = 0
       THEN /\ portraitError' = EquipFirstText
            /\ handlerResult' = HandlerMessage(EquipFirstText, 0)
            /\ UNCHANGED <<isAgentRunning, runsInFlight>>
       ELSE /\ Len(runsInFlight) < MaxRuns
            /\ isAgentRunning' = TRUE
            /\ portraitError' = Null
            /\ runsInFlight' =
                  Append(runsInFlight,
                         Len(PurchaseItems(renderedEquippedSlots)))
            /\ UNCHANGED handlerResult
    /\ UNCHANGED <<equippedSlots, renderedIsAgentRunning,
                   renderedEquippedSlots>>
    /\ UNCHANGED restOfPurchase

AgentFailedText == "Agent failed"

\* the sequence without its i-th element
WithoutRun(runs, i) == SubSeq(runs, 1, i - 1) \o SubSeq(runs, i + 1, Len(runs))

\* the i-th runAgent call in flight settles and its handleRunAgent resumes:
\* try / catch / finally, lines 562-575
purchaseSettled(i, ok) ==
    /\ i \in 1..Len(runsInFlight)
    /\ runsInFlight' = WithoutRun(runsInFlight, i)
    /\ IF ok
       THEN /\ handlerResult' = HandlerMessage(PurchasingText, runsInFlight[i])
            /\ UNCHANGED portraitError
       ELSE /\ portraitError' = AgentFailedText
            /\ handlerResult' = HandlerMessage(AgentFailedText, 0)
    /\ isAgentRunning' = FALSE
    /\ UNCHANGED <<equippedSlots, renderedIsAgentRunning,
                   renderedEquippedSlots>>
    /\ UNCHANGED restOfPurchase

----------------------------------------------------------------------------
(* Specifications *)

\* everything outside the purchase flow at rest
UiIdle == CatalogIdle /\ StudioInit /\ RouteIdle /\ PurchaseIdle

Init ==
    PoIdle /\ WardrobeInit /\ RunInit /\ GateInit /\ OutfitIdle /\ UiIdle

\* runAgent under arbitrary callers, messages and tool requests
Next ==
    \/ \E list \in DirectInputs : DirectCall(list)
    \/ \E setupFails \in BOOLEAN : RunAgentStart(setupFails)
    \/ \E m \in Messages : ConsumeMessage(m)
    \/ \E n \in ToolNames, i \in ToolInputs : ToolRequest(n, i)
    \/ StreamEnd
    \/ StreamThrows

Spec == Init /\ [][Next]_vars

\* the wardrobe driving runAgent
WardrobeMessages ==
    { Message("result", "success", <<>>, "r1"),
      Message("assistant", "", <<>>, "text") }
WardrobeToolNames == {"mcp__locus__send_to_address", "mcp__other__delete"}
WardrobeToolInputs == {[address |-> MERCHANT_ADDRESSES[1], amount |-> 100]}

NextWardrobe ==
    \/ \E s \in AssignableSlots, p \in ProductIds : handleAssignSlot(s, p)
    \/ \E s \in AssignableSlots : handleClearSlot(s)
    \/ handleRunAgentBusy
    \/ handleRunAgentEmpty
    \/ handleRunAgentCall
    \/ handleRunAgentSettled
    \/ \E setupFails \in BOOLEAN : RunAgentStart(setupFails)
    \/ \E m \in WardrobeMessages : ConsumeMessage(m)
    \/ \E n \in WardrobeToolNames, i \in WardrobeToolInputs : ToolRequest(n, i)
    \/ StreamEnd
    \/ StreamThrows

SpecWardrobe == Init /\ [][NextWardrobe]_vars

InitOrder ==
    /\ \E n \in 0..MaxItems : \E prices \in [1..n -> TestPrices] :
          poInput = OrderInput(n, prices)
    /\ poOutput = Pending
    /\ WardrobeInit /\ RunInit /\ GateInit /\ OutfitIdle /\ UiIdle

NextOrder == ApplyCreatePurchaseOrder

SpecOrder == InitOrder /\ [][NextOrder]_vars

InitOutfit ==
    /\ PoIdle /\ WardrobeInit /\ RunInit /\ GateInit /\ UiIdle
    /\ (OutfitCalled \/ RemoveBackgroundCalled)

NextOutfit ==
    \/ VisitSlot
    \/ \E ok \in BOOLEAN : FetchComplete(ok)
    \/ CheckInputs
    \/ StartPass
    \/ RemoveBackgroundStart
    \/ \E chunk \in Chunks : ConsumeChunk(chunk)
    \/ StreamEnds
    \/ GenerationFails

SpecOutfit == InitOutfit /\ [][NextOutfit]_vars

InitCatalog ==
    /\ PoIdle /\ WardrobeInit /\ RunInit /\ GateInit /\ OutfitIdle
    /\ StudioInit /\ RouteIdle /\ PurchaseIdle
    /\ CatalogInit

\* the wardrobe's catalogue handlers; the slot menu offers slotOptionsMap
NextCatalog ==
    \/ \E i \in 1..Len(productDeck), direction \in {"left", "right"} :
          handleProductSwipe(productDeck[i], direction)
    \/ \E slotId \in AssignableSlots :
          \E i \in 1..Len(slotOptionsMap[slotId]) :
             handleAssignSlot(slotId, slotOptionsMap[slotId][i])
    \/ \E slotId \in AssignableSlots : handleClearSlot(slotId)
    \/ \E r \in VoiceRequests :
          handleVoiceEquipProduct(r.slotId, r.productId, r.productName)
    \/ \E initialProducts \in InitialProductLists :
          ResetWardrobe(initialProducts)

SpecCatalog == InitCatalog /\ [][NextCatalog]_vars

\* what the studio equips: a product with an image in each of two slots, and
\* one without an image
StudioOutfits == {<<"chest", "a">>, <<"legs", "b">>, <<"chest", "z">>}

InitStudio ==
    /\ PoIdle /\ WardrobeInit /\ RunInit /\ GateInit /\ CatalogIdle
    /\ StudioInit /\ RouteIdle /\ PurchaseIdle
    /\ \E key \in BOOLEAN : OutfitIdleWith(key)

\* the studio: equip, upload a portrait, generate outfits
NextStudio ==
    \/ \E outfit \in StudioOutfits :
          isGeneratingOutfit = FALSE /\ handleAssignSlot(outfit[1], outfit[2])
    \/ \E file \in Files : handlePortraitFileChange(file)
    \/ PortraitResponse
    \/ handleGenerateOutfit
    \/ handleGenerateOutfitSettled
    \/ VisitSlot
    \/ \E ok \in BOOLEAN : FetchComplete(ok)
    \/ CheckInputs
    \/ StartPass
    \/ RemoveBackgroundStart
    \/ \E chunk \in StudioChunks : ConsumeChunk(chunk)
    \/ StreamEnds
    \/ GenerationFails

SpecStudio == InitStudio /\ [][NextStudio]_vars

InitRoute ==
    /\ PoIdle /\ WardrobeInit /\ RunInit /\ GateInit /\ OutfitIdle
    /\ UiIdle

\* requests to the product search route, one at a time
NextRoute ==
    \/ \E body \in Bodies : SearchPost(body)
    \/ \E ok \in BOOLEAN : SearchSettles(ok)

SpecRoute == InitRoute /\ [][NextRoute]_vars

InitPurchase ==
    /\ PoIdle /\ WardrobeInit /\ RunInit /\ GateInit /\ OutfitIdle
    /\ UiIdle

\* equipping, rendering and purchase requests in any order
NextPurchase ==
    \/ \E slotId \in AssignableSlots, product \in ProductIds :
          handleAssignSlot(slotId, product)
    \/ \E slotId \in AssignableSlots : handleClearSlot(slotId)
    \/ Render
    \/ purchaseEquipped
    \/ \E i \in 1..MaxRuns, ok \in BOOLEAN : purchaseSettled(i, ok)

SpecPurchase == InitPurchase /\ [][NextPurchase]_vars

----------------------------------------------------------------------------
(* Claims *)

HasLocusPrefix(name) == StartsWith(ToolNameChars[name], LOCUS_PREFIX)

\* C1: every tool request of a run, the first and the later ones, is decided
\* by the gate: with a name that starts with 'mcp__locus__' it is allowed and
\* handed to the execution layer; with any other name it is denied with the
\* message 'Only Locus tools are allowed' and the execution layer receives
\* nothing.
C1_OnlyLocusToolsAllowed ==
    [][toolCalls' = toolCalls + 1 =>
          IF HasLocusPrefix(lastRequest'.name)
          THEN /\ lastDecision'.behavior = "allow"
               /\ Len(executed') = Len(executed) + 1
               /\ executed'[Len(executed')].name = lastRequest'.name
          ELSE /\ lastDecision'.behavior = "deny"
               /\ lastDecision'.message = "Only Locus tools are allowed"
               /\ executed' = executed]_vars

\* an allowed request followed, in the same run, by a denied mcp__other__delete
C1_Witness ==
    /\ toolCalls = 2
    /\ Len(executed) = 1
    /\ lastRequest.name = "mcp__other__delete"
    /\ lastDecision.behavior = "deny"

\* C2: an allowed request is forwarded with exactly the input requested, and
\* whether a request is allowed does not depend on its input.
C2_ForwardedInputUnchanged ==
    /\ lastDecision.behavior = "allow" =>
          /\ lastDecision.updatedInput = lastRequest.input
          /\ executed[Len(executed)] = lastRequest
    /\ \A i \in 1..Len(executed) : executed[i].input \in ToolInputs
    /\ \A n \in ToolNames, i \in ToolInputs, j \in ToolInputs :
          CanUseTool(n, i).behavior = CanUseTool(n, j).behavior

\* mcp__locus__send_to_address allowed with an input naming another address
C2_Witness ==
    /\ lastDecision.behavior = "allow"
    /\ lastRequest.name = "mcp__locus__send_to_address"
    /\ lastRequest.input.address = "0xattacker"
    /\ executed[Len(executed)].input.address = "0xattacker"

PositiveFinite(p) == p.k = "fin" /\ p.v > 0

\* C3: for a list of N items with positive prices createPurchaseOrder returns
\* N items in the input order, item i (from 0) with the (i mod 3)-th merchant
\* address and with sendAmount the hundredth nearest to price/1000; a price of
\* 999 gives 1.00 and a price of 150 gives 0.15.
C3_OrderShape ==
    (/\ poOutput # Pending
     /\ \A i \in 1..Len(poInput.elems) : PositiveFinite(poInput.elems[i].price))
    =>
    /\ poOutput.kind = "returned"
    /\ Len(poOutput.value) = Len(poInput.elems)
    /\ \A i \in 1..Len(poInput.elems) :
          LET in == poInput.elems[i]
              out == poOutput.value[i]
          IN  /\ out.id = in.id
              /\ out.slotId = in.slotId
              /\ out.price = in.price
              /\ out.recipientAddress =
                    CASE (i - 1) % 3 = 0 -> MERCHANT_ADDRESSES[1]
                      [] (i - 1) % 3 = 1 -> MERCHANT_ADDRESSES[2]
                      [] (i - 1) % 3 = 2 -> MERCHANT_ADDRESSES[3]
              /\ 10 * out.sendAmount - in.price.v \in -5..5
              /\ in.price = Fin(999) => out.sendAmount = 100
              /\ in.price = Fin(150) => out.sendAmount = 15

\* the worked example continued to a fourth item, which gets the first
\* address again
C3_Witness ==
    /\ poOutput.kind = "returned"
    /\ Len(poOutput.value) = 4
    /\ poOutput.value[1].price = Fin(999) /\ poOutput.value[1].sendAmount = 100
    /\ poOutput.value[2].price = Fin(150) /\ poOutput.value[2].sendAmount = 15
    /\ poOutput.value[2].recipientAddress = MERCHANT_ADDRESSES[2]
    /\ poOutput.value[4].recipientAddress = MERCHANT_ADDRESSES[1]

\* C4: every item of a purchase order that createPurchaseOrder returns has
\* sendAmount > 0.
C4_SendAmountPositive ==
    poOutput.kind = "returned" =>
        \A i \in 1..Len(poOutput.value) : poOutput.value[i].sendAmount > 0

BadPrice(p) == p.k # "fin" \/ p.v <= 0
BadIndexes(list) == {i \in 1..Len(list) : BadPrice(list[i].price)}

\* C5: a run whose item list holds an item with a price that is 0, negative,
\* NaN or infinite fails with the validation error naming the first such
\* item, with no purchase order, no prompt, no session and no agent activity.
C5_InvalidPriceFailsFirst ==
    (/\ agentPc \in {"streaming", "returned", "thrown"}
     /\ items.isArray
     /\ BadIndexes(items.elems) # {})
    =>
    /\ agentPc = "thrown"
    /\ outcome.kind = "thrown"
    /\ outcome.error.name = "must include a valid price"
    /\ outcome.error.id = items.elems[Min(BadIndexes(items.elems))].id
    /\ purchaseOrder = <<>>
    /\ ~promptBuilt
    /\ ~sessionOpen
    /\ stream = <<>>
    /\ toolCalls = 0

\* a list with a valid item, then a negative price, then a zero price
C5_Witness ==
    /\ agentPc = "thrown"
    /\ Len(items.elems) = 3
    /\ items.elems[3].price = Fin(0)
    /\ outcome.error = InvalidPriceError("m")
    /\ ~sessionOpen

SuccessIndexes(msgs) ==
    {i \in 1..Len(msgs) :
        msgs[i].type = "result" /\ msgs[i].subtype = "success"}
Max(S) == CHOOSE x \in S : \A y \in S : x >= y

\* C6: a run that returns, returns the payload of the last success message of
\* the stream, and null when the stream held none.
C6_ReturnsLastSuccess ==
    agentPc = "returned" =>
        /\ outcome.kind = "returned"
        /\ IF SuccessIndexes(stream) = {}
           THEN outcome.value = Null
           ELSE outcome.value = stream[Max(SuccessIndexes(stream))].result

\* two success messages with different payloads
C6_Witness ==
    /\ agentPc = "returned"
    /\ Len(stream) = 2
    /\ IsSuccess(stream[1]) /\ stream[1].result = "r1"
    /\ IsSuccess(stream[2]) /\ stream[2].result = "r2"
    /\ outcome.value = "r2"

\* C7: a run in which session setup or the message stream raised has logged
\* the error and ends by raising it: it never returns, and a run that returns
\* has seen no such error.
C7_ErrorsReRaised ==
    /\ logged =>
          /\ agentPc = "thrown"
          /\ outcome.kind = "thrown"
          /\ outcome.error \in {SessionError, StreamError}
    /\ (outcome.kind = "thrown" /\ outcome.error \in {SessionError, StreamError})
          => logged
    /\ agentPc = "returned" => (~logged /\ outcome.kind = "returned")

\* the stream raises after a success message was captured
C7_Witness ==
    /\ agentPc = "thrown"
    /\ logged
    /\ outcome.error = StreamError
    /\ finalResult = "r1"

\* C8: when runAgent returned no result, handleRunAgent does not answer with
\* its purchase message.
C8_MissingResultNotReported ==
    [][(/\ caller = "handler"
        /\ agentPc = "returned"
        /\ outcome.value = Null
        /\ caller' = "none")
       => handlerResult'.text # PurchasingText]_vars

\* C9: a run called with an empty list, or with no list, fails with the
\* 'at least one equipped item' error and has built no purchase order and no
\* prompt and opened no session.
C9_EmptyFailsFast ==
    (/\ agentPc \in {"streaming", "returned", "thrown"}
     /\ (~items.isArray \/ items.elems = <<>>))
    =>
    /\ agentPc = "thrown"
    /\ outcome = RunFailed(EmptyItemsError)
    /\ purchaseOrder = <<>>
    /\ ~promptBuilt
    /\ ~sessionOpen
    /\ stream = <<>>
    /\ toolCalls = 0

\* runAgent called with something that is not a list
C9_Witness ==
    /\ agentPc = "thrown"
    /\ ~items.isArray
    /\ outcome.error = EmptyItemsError

\* C10: a denied tool request is answered with a refusal and leaves the run
\* as it was: still consuming the stream, nothing raised, nothing logged.
C10_DenialNotFatal ==
    [][(toolCalls' = toolCalls + 1 /\ ~HasLocusPrefix(lastRequest'.name)) =>
          /\ lastDecision' = Deny
          /\ agentPc = "streaming" /\ agentPc' = "streaming"
          /\ outcome' = RunPending
          /\ ~logged'
          /\ UNCHANGED <<stream, finalResult, mcpStatus, sessionOpen>>]_vars

\* every tool request of the run was denied and the run returned a success
C10_Witness ==
    /\ agentPc = "returned"
    /\ toolCalls = MaxToolCalls
    /\ executed = <<>>
    /\ outcome.value = "r1"

\* C11: an initialization message whose 'locus' server is not connected, or
\* that lists no 'locus' server, leaves the run consuming its stream: nothing
\* is raised, nothing is returned yet, and the result captured so far stays.
C11_InitWarningNotFatal ==
    [][(/\ agentPc = "streaming"
        /\ Len(stream') = Len(stream) + 1
        /\ IsInit(stream'[Len(stream')])
        /\ \A i \in 1..Len(stream'[Len(stream')].mcp_servers) :
              LET s == stream'[Len(stream')].mcp_servers[i]
              IN  s.name = "locus" => s.status # "connected")
       => /\ agentPc' = "streaming"
          /\ outcome' = RunPending
          /\ ~logged'
          /\ finalResult' = finalResult]_vars

\* a run that met a failed 'locus' server and then returned a success result
C11_Witness ==
    /\ agentPc = "returned"
    /\ Len(stream) = 2
    /\ IsInit(stream[1])
    /\ stream[1].mcp_servers = <<Server("locus", "failed")>>
    /\ mcpStatus = Server("locus", "failed")
    /\ IsSuccess(stream[2])
    /\ outcome = RunSettled("r1")

-----------------------------------------------------------------------------
(* generateOutfitImage *)

IsOutfit == operation = "generateOutfitImage"

\* the slot holds an image reference: a buffer or an image URL
HoldsImage(s) ==
    /\ ~slots[s].isNull
    /\ (slots[s].buffer # NoBuffer \/ slots[s].imageUrl # "")

\* the canonical layering of the slots that hold an image
CanonicalSlots == SelectSeq(LAYERING_ORDER, HoldsImage)

\* C12: the passes are threaded.  The first generation call takes the
\* resolved upload as its base image, a further call is issued only once the
\* one before it has produced an image and takes exactly that image as its
\* base, and the data URL returned carries the last call's output.
C12_PassesThreaded ==
    IsOutfit =>
      /\ \A n \in 1..Len(calls) :
            IF n = 1
            THEN calls[n].base = ResolvePortrait(portrait).buffer
            ELSE /\ calls[n - 1].output # NoBuffer
                 /\ calls[n].base = calls[n - 1].output
                 /\ calls[n].base # ResolvePortrait(portrait).buffer
      /\ outfitPc = "returned" =>
            /\ Len(calls) >= 1
            /\ outfitOutcome.value =
                  DataUrl(resolvedPortraitMimeType(portrait),
                          ToBase64(calls[Len(calls)].output))

\* two passes: the second one built on "G1", the output of the first
C12_Witness ==
    /\ IsOutfit
    /\ outfitPc = "returned"
    /\ Len(calls) = 2
    /\ calls[1].base = "P0" /\ calls[1].output = "G1"
    /\ calls[2].base = "G1" /\ calls[2].output = "G2"
    /\ outfitOutcome.value[4] = "RzI="

\* C13: call n carries garments 2n-1 and 2n of the resolved garments (the
\* last call possibly just one), so no call is empty, none has more than two
\* and no garment appears twice; a completed render over k garments has
\* issued exactly ceil(k/2) calls, which together carry every garment.
C13_PassesOfAtMostTwo ==
    IsOutfit =>
      /\ \A n \in 1..Len(calls) :
            /\ Len(calls[n].garments) \in {1, 2}
            /\ \A j \in 1..Len(calls[n].garments) :
                  /\ 2 * (n - 1) + j <= Len(slotAssets)
                  /\ calls[n].garments[j] = slotAssets[2 * (n - 1) + j]
            /\ n < Len(calls) => Len(calls[n].garments) = 2
      /\ outfitPc = "returned" =>
            /\ Len(slotAssets) = Len(CanonicalSlots)
            /\ 2 * Len(calls) >= Len(slotAssets)
            /\ 2 * (Len(calls) - 1) < Len(slotAssets)
            /\ 2 * (Len(calls) - 1) + Len(calls[Len(calls)].garments)
                  = Len(slotAssets)

\* three garments rendered in two passes, of sizes 2 and 1
C13_Witness ==
    /\ IsOutfit
    /\ outfitPc = "returned"
    /\ Len(slotAssets) = 3
    /\ Len(calls) = 2
    /\ Len(calls[1].garments) = 2
    /\ Len(calls[2].garments) = 1

\* C14: the garments are gathered, and applied, in the canonical layering
\* order of the slots that hold an image, each with the bytes its slot maps
\* to; the key order of the slots argument plays no part.
C14_CanonicalOrder ==
    IsOutfit =>
      /\ Len(slotAssets) <= Len(CanonicalSlots)
      /\ \A i \in 1..Len(slotAssets) :
            /\ slotAssets[i].slot = CanonicalSlots[i]
            /\ slotAssets[i].buffer =
                  IF slots[CanonicalSlots[i]].buffer # NoBuffer
                  THEN slots[CanonicalSlots[i]].buffer
                  ELSE FetchedBody(slots[CanonicalSlots[i]].imageUrl)
      /\ outfitPc \in {"pass", "generating", "returned"} =>
            Len(slotAssets) = Len(CanonicalSlots)
      /\ \A n \in 1..Len(calls) : \A j \in 1..Len(calls[n].garments) :
            calls[n].garments[j].slot = CanonicalSlots[2 * (n - 1) + j]

\* the argument lists head, chest, legs; the passes apply legs and chest,
\* then head
C14_Witness ==
    /\ IsOutfit
    /\ slotKeys = <<"head", "chest", "legs">>
    /\ outfitPc = "returned"
    /\ Len(calls) = 2
    /\ calls[1].garments[1].slot = "legs"
    /\ calls[1].garments[2].slot = "chest"
    /\ calls[2].garments[1].slot = "head"

\* C15: a generation call that ended without an image is the last call of
\* the render, and the render has thrown: no pass follows it, the pass loop
\* does not go on without its output, and nothing is returned.  A render that
\* returns has an output for every call it issued.
C15_NoImageFailsRender ==
    IsOutfit =>
      /\ \A n \in 1..Len(calls) :
            calls[n].output = NoBuffer =>
               /\ n = Len(calls)
               /\ outfitPc \in {"generating", "thrown"}
               /\ outfitPc = "thrown" => outfitOutcome.kind = "thrown"
      /\ outfitPc = "returned" =>
            \A n \in 1..Len(calls) : calls[n].output # NoBuffer

\* three garments; the first pass's stream delivers two chunks without an
\* image and ends: the render has thrown and the second pass never started
C15_Witness ==
    /\ IsOutfit
    /\ Len(slotAssets) = 3
    /\ Len(calls) = 1
    /\ chunks = << <<TextPart>>, <<>> >>
    /\ outfitPc = "thrown"
    /\ outfitOutcome = OutfitThrown(NoUpdatedPortrait)

\* C16 as the specification words it: no slot whose image cannot be loaded
\* makes the render fail.
C16_UnloadableSlotNeverFails ==
    IsOutfit =>
      \A s \in OutfitSlots :
         outfitOutcome # OutfitThrown(FailedToLoad(s, slots[s].imageUrl))

\* C16, amended: a slot that is null, or whose asset has neither a buffer nor
\* an image URL, is passed over (no garment, no fetch, no failure, the loop
\* moves to the next slot); a slot whose image URL is fetched either yields a
\* garment or, when the response is not ok, fails the whole render with the
\* "Failed to load" error.
C16_SkipOrFail ==
    [][IsOutfit =>
         /\ (/\ outfitPc = "slots"
             /\ layerIndex <= Len(LAYERING_ORDER)
             /\ ~HoldsImage(LAYERING_ORDER[layerIndex]))
            => /\ layerIndex' = layerIndex + 1
               /\ outfitPc' = "slots"
               /\ slotAssets' = slotAssets
               /\ fetches' = fetches
               /\ outfitOutcome' = OutfitPending
         /\ outfitPc = "fetching"
            => LET slot == LAYERING_ORDER[layerIndex]
               IN  \/ /\ outfitPc' = "slots"
                      /\ Len(slotAssets') = Len(slotAssets) + 1
                      /\ slotAssets'[Len(slotAssets')].slot = slot
                      /\ outfitOutcome' = OutfitPending
                   \/ /\ outfitPc' = "thrown"
                      /\ outfitOutcome' =
                            OutfitThrown(FailedToLoad(slot, slots[slot].imageUrl))
                      /\ calls' = <<>>]_vars

\* chest holds an asset with neither buffer nor URL, legs a buffer: the
\* render returns with the one garment
C16_Witness ==
    /\ IsOutfit
    /\ slots["chest"] = Asset(NoBuffer, "")
    /\ slots["legs"] = Asset("Bl", "")
    /\ slots["head"] = NullAsset
    /\ outfitPc = "returned"
    /\ Len(slotAssets) = 1
    /\ slotAssets[1].slot = "legs"

\* C17: when no slot holds an image (each is null or has neither buffer nor
\* URL) the call fetches nothing, issues no generation call, and settles only
\* by throwing NoRenderableAssets, whatever the portrait is.
C17_NoRenderableAssets ==
    (IsOutfit /\ CanonicalSlots = <<>>) =>
      /\ calls = <<>>
      /\ fetches = <<>>
      /\ outfitPc \in {"slots", "thrown"}
      /\ outfitPc = "thrown" => outfitOutcome = OutfitThrown(NoRenderableAssets)

\* a good portrait, and slots that are null or empty objects
C17_Witness ==
    /\ IsOutfit
    /\ portrait = Portrait("P0", "image/jpeg", <<>>)
    /\ slots["chest"] = Asset(NoBuffer, "")
    /\ slots["legs"] = NullAsset
    /\ slots["head"] = NullAsset
    /\ geminiKey
    /\ outfitOutcome = OutfitThrown(NoRenderableAssets)
    /\ calls = <<>>

PortraitAbsent == portrait.buffer = NoBuffer /\ portrait.dataUrl = <<>>

\* C18 as the specification words it: a call without a portrait that has
\* failed has failed with MissingPortrait.
C18_AlwaysMissingPortrait ==
    (IsOutfit /\ PortraitAbsent /\ outfitPc = "thrown") =>
       outfitOutcome = OutfitThrown(MissingPortrait)

\* C18, amended: a call whose portrait has neither buffer nor data URL never
\* issues a generation call and never returns; it fails with MissingPortrait
\* when the slot loop gathered at least one garment, with NoRenderableAssets
\* when it gathered none, and with the fetch error when a slot image failed
\* to load first.
C18_MissingPortrait ==
    (IsOutfit /\ PortraitAbsent) =>
      /\ calls = <<>>
      /\ outfitPc \in {"slots", "fetching", "thrown"}
      /\ outfitPc = "thrown" =>
            outfitOutcome =
               IF layerIndex <= Len(LAYERING_ORDER)
               THEN OutfitThrown(FailedToLoad(LAYERING_ORDER[layerIndex],
                        slots[LAYERING_ORDER[layerIndex]].imageUrl))
               ELSE IF slotAssets = <<>>
               THEN OutfitThrown(NoRenderableAssets)
               ELSE OutfitThrown(MissingPortrait)

\* two garments gathered, one of them fetched, and no portrait
C18_Witness ==
    /\ IsOutfit
    /\ PortraitAbsent
    /\ geminiKey
    /\ Len(slotAssets) = 2
    /\ Len(fetches) = 1
    /\ calls = <<>>
    /\ outfitOutcome = OutfitThrown(MissingPortrait)

\* C19: without the image-model key generateOutfitImage fetches no slot
\* image and issues no generation call, and fails with the configuration
\* error.
C19_FailsBeforeAnyCall ==
    (IsOutfit /\ ~geminiKey) =>
      /\ fetches = <<>>
      /\ calls = <<>>
      /\ outfitPc = "thrown" => outfitOutcome = OutfitThrown(ConfigurationMissing)

\* the part a chunk's scan returns, found without the scan: the data of the
\* part before which no part has data
HasImage(chunk) == \E j \in 1..Len(chunk) : chunk[j].data # ""
LeadingImage(chunk) ==
    chunk[CHOOSE j \in 1..Len(chunk) :
             /\ chunk[j].data # ""
             /\ \A k \in 1..(j - 1) : chunk[k].data = ""].data

\* C20: of the chunks consumed from a call's stream only the last can hold
\* an image; while none does the call is still reading and has not failed;
\* when the last one does, the call's output is the first part with data in
\* that chunk, decoded.
C20_FirstImageWins ==
    (operation # "none" /\ Len(calls) >= 1 /\ outfitPc # "thrown") =>
      /\ \A i \in 1..(Len(chunks) - 1) : ~HasImage(chunks[i])
      /\ (outfitPc = "generating") =>
            /\ \A i \in 1..Len(chunks) : ~HasImage(chunks[i])
            /\ outfitOutcome = OutfitPending
            /\ calls[Len(calls)].output = NoBuffer
      /\ (outfitPc # "generating") =>
            /\ Len(chunks) >= 1
            /\ HasImage(chunks[Len(chunks)])
            /\ calls[Len(calls)].output =
                  FromBase64(LeadingImage(chunks[Len(chunks)]))
            /\ IF IsOutfit
               THEN workingPortrait = calls[Len(calls)].output
               ELSE outfitOutcome =
                       OutfitReturned(<<calls[Len(calls)].output>>)

\* removeBackgroundWithGoogle reads a text chunk, then a chunk with two
\* images, and returns the first of the two
C20_Witness ==
    /\ operation = "removeBackgroundWithGoogle"
    /\ chunks = << <<TextPart>>, <<ImagePart("G1"), ImagePart("G2")>> >>
    /\ outfitOutcome = OutfitReturned(<<"G1">>)

\* C21: in a run of the image pipeline at most one external call is in
\* flight at any time, and a slot-image fetch or a generation call is started
\* only when none is.
C21_OneCallInFlight ==
    /\ [](Len(inFlight) <= 1)
    /\ [][Len(inFlight') > Len(inFlight) => inFlight = <<>>]_vars

\* legs and chest were fetched one after the other, the first pass has
\* returned, and the second pass's generation call is the only one in flight
C21_Witness ==
    /\ IsOutfit
    /\ Len(fetches) = 2
    /\ Len(calls) = 2
    /\ calls[1].output = "G1"
    /\ inFlight = <<ExternalCall("generateContentStream", "G1")>>

-----------------------------------------------------------------------------
(* The wardrobe's catalogue *)

\* the lowercased text 'name + space + description' of a product, built
\* character by character
Haystack(id) ==
    LET product == CHOOSE q \in ProductSummaries : q.id = id
        text == product.name \o <<" ">> \o
                (IF product.hasDescription THEN product.description ELSE <<>>)
    IN  [i \in 1..Len(text) |->
            IF text[i] \in DOMAIN UpperToLower THEN UpperToLower[text[i]]
            ELSE text[i]]

\* the keyword stands in the text at some offset
OccursIn(keyword, text) ==
    \E offset \in 0..(Len(text) - Len(keyword)) :
        \A j \in 1..Len(keyword) : text[offset + j] = keyword[j]

\* the slots one of whose keywords occurs in the product's text
KeywordSlots ==
    [id \in CatalogIds |->
        {slotId \in SlotIds :
            \E keyword \in slotKeywordMap[slotId] :
                OccursIn(keyword, Haystack(id))}]

Listed(id, slotId) ==
    \E i \in 1..Len(slotOptionsMap[slotId]) : slotOptionsMap[slotId][i] = id

IsSaved(id) == \E i \in 1..Len(savedProducts) : savedProducts[i] = id

\* productMatchesSlot against the keyword test, over the whole catalogue
MatchAgreesWithKeywords ==
    \A id \in CatalogIds : \A slotId \in SlotIds :
       productMatchesSlot(Product(id), slotId) <=> slotId \in KeywordSlots[id]

\* C22: a product matches a slot exactly when a keyword of the slot occurs
\* in its lowercased 'name + space + description', and a saved product that
\* matches some slot is listed under every slot it matches and under no
\* other.
C22_MatchIffKeyword ==
    /\ MatchAgreesWithKeywords
    /\ \A id \in CatalogIds :
          (IsSaved(id) /\ KeywordSlots[id] # {}) =>
             \A slotId \in SlotIds :
                Listed(id, slotId) <=> slotId \in KeywordSlots[id]

\* "Denim Jacket / Pairs with JEAN cuts" is listed under chest and legs,
\* "Hip" / "Pack" under waist, "Earring" under ears and ring
C22_Witness ==
    /\ Listed("a", "chest") /\ Listed("a", "legs")
    /\ Listed("b", "waist")
    /\ Listed("e", "ears") /\ Listed("e", "ring")

\* C23: a saved product that matches no slot is listed exactly once, under
\* the first slot of (chest, legs, hand, bag) that the index has; a saved
\* product that matches a slot is listed under no slot it does not match.
C23_FallbackSlot ==
    \A id \in CatalogIds :
       IsSaved(id) =>
          IF KeywordSlots[id] = {}
          THEN \E k \in 1..Len(slotFallbackPriority) :
                  /\ slotFallbackPriority = <<"chest", "legs", "hand", "bag">>
                  /\ slotFallbackPriority[k] \in DOMAIN slotOptionsMap
                  /\ \A j \in 1..(k - 1) :
                        slotFallbackPriority[j] \notin DOMAIN slotOptionsMap
                  /\ \A slotId \in SlotIds :
                        Listed(id, slotId) <=> slotId = slotFallbackPriority[k]
                  /\ Len(SelectSeq(slotOptionsMap[slotFallbackPriority[k]],
                                   LAMBDA item : item = id)) = 1
          ELSE \A slotId \in SlotIds :
                  Listed(id, slotId) => slotId \in KeywordSlots[id]

\* "Gift Card" matches nothing and is offered for the chest; the jacket,
\* saved as well, is not in a fallback slot it does not match
C23_Witness ==
    /\ IsSaved("z") /\ IsSaved("a")
    /\ Listed("z", "chest")
    /\ ~Listed("a", "hand") /\ ~Listed("a", "bag")

\* C24: every saved product is in the option list of at least one slot.
C24_NoOrphanedProduct ==
    \A i \in 1..Len(savedProducts) :
       \E slotId \in SlotIds : Listed(savedProducts[i], slotId)

\* "Gift Card" was saved by a voice equip after the deck was given anew
C24_Witness ==
    /\ productDeck = <<"e">>
    /\ savedProducts = <<"z">>
    /\ voiceResult = EquippedResult("z", "chest")
    /\ Listed("z", "chest")

\* C25: every slot is empty or holds one product of the catalogue, whose
\* price is a positive number.
C25_EquippedPricesPositive ==
    \A slotId \in SlotIds :
       \/ equippedSlots[slotId] = NoProduct
       \/ /\ equippedSlots[slotId] \in CatalogIds
          /\ PositiveFinite(Product(equippedSlots[slotId]).price)

\* a file of the accepted size and of one of the accepted encodings
Conforming(file) ==
    /\ file.size <= maxSizeBytes
    /\ file.type \in allowedMimeTypes

\* C26: every file that reached the portrait endpoint, and through it the
\* image model, is at most 5 MB and declares one of the accepted encodings;
\* an oversized file, a file of another encoding and a file that declares no
\* type are turned away before the request.
C26_OnlyConformingForwarded ==
    \A i \in 1..Len(endpointRequests) : Conforming(endpointRequests[i])

\* a generation started by handleGenerateOutfit has issued its first pass
FirstPassIssued == operation = "generateOutfitImage" /\ calls # <<>>

\* the bytes a stored portrait (a data URL) stands for
PortraitBytes(url) == ResolvePortrait(Portrait(NoBuffer, "", url)).buffer

\* handleGenerateOutfit resumes after generateOutfitImage has settled
GenerationResumes == isGeneratingOutfit /\ ~isGeneratingOutfit'

BadQuery(body) ==
    \/ ~body.parses
    \/ body.query.t # "string"
    \/ \A i \in 1..Len(body.query.s) : body.query.s[i] = " "

\* the page size a limit property stands for: the whole part of a finite
\* number brought into 1..15, and 4 for anything else
ExpectedLimit(limit) ==
    IF limit.t = "number" /\ limit.n.k = "fin"
    THEN IF limit.n.v < 10 THEN 1
         ELSE IF limit.n.v >= 10 * MAX_LIMIT THEN MAX_LIMIT
         ELSE CHOOSE n \in 1..MAX_LIMIT :
                 10 * n <= limit.n.v /\ limit.n.v < 10 * (n + 1)
    ELSE DEFAULT_LIMIT

\* C27: the limit handed to searchProducts is a whole number from 1 to 15,
\* the floor of a finite numeric limit clamped into that range or the default
\* 4 for any other limit; a request whose query is missing, not a string or
\* blank is answered with status 400 and searchProducts is not called.
C27_ClampedLimit ==
    /\ routePc = "searching" =>
          /\ searchArgs[2].k = "fin"
          /\ searchArgs[2].v % 10 = 0
          /\ searchArgs[2].v \div 10 \in 1..15
          /\ searchArgs[2].v \div 10 = ExpectedLimit(request.limit)
          /\ searchArgs[1] # <<>>
    /\ (BadQuery(request) /\ (routePc # "idle" \/ response # NoResponse)) =>
          /\ routePc = "idle"
          /\ searchArgs = <<>>
          /\ response = Response(400)

\* a limit of 15.9 goes to searchProducts as 15, with the trimmed query
C27_Witness ==
    /\ routePc = "searching"
    /\ request.limit = JsonNumber(Tenths(159))
    /\ request.query = JsonString(<<" ", "r", "e", "d", " ">>)
    /\ searchArgs = <<<<"r", "e", "d">>, Whole(15)>>

\* C28: at most one runAgent call started from the wardrobe is in flight,
\* whatever the order of purchase requests, renders and settlements.
C28_AtMostOneRun == Len(runsInFlight) <= 1

\* the read-resource and list-resources primitives
ResourcePrimitives == {"mcp__read_resource", "mcp__list_resources"}

\* C30: the allow-list of the session names 'mcp__locus__*' and both
\* resource primitives, and the gate, whenever it is consulted for one of the
\* two primitives, denies it: no such request is ever executed.
C30_GateDeniesListedPrimitives ==
    /\ Len(allowedTools) = 3
    /\ AllowListed("mcp__locus__send_to_address")
    /\ \A name \in ResourcePrimitives :
          /\ AllowListed(name)
          /\ ~StartsWith(ToolNameChars[name], LOCUS_PREFIX)
    /\ lastRequest.name \in ResourcePrimitives => lastDecision = Deny
    /\ \A i \in 1..Len(executed) : executed[i].name \notin ResourcePrimitives

\* the agent asked for mcp__read_resource, which is on the allow-list, and
\* the gate denied it
C30_Witness ==
    /\ lastRequest.name = "mcp__read_resource"
    /\ AllowListed(lastRequest.name)
    /\ lastDecision = Deny
    /\ toolCalls > 0

====
